---------------------------- MODULE Spec2Model ----------------------------
(***************************************************************************)
(* State-machine model of the microgate API gateway (neontvn/microgate).   *)
(*                                                                         *)
(* Part 1: the circuit breaker (internal/middleware/circuitbreaker.go).    *)
(* Part 2: the token-bucket rate limiter and the adaptive rate limiter     *)
(*         (middleware/ratelimit.go, internal/middleware/                  *)
(*         adaptive_ratelimit.go).                                         *)
(*                                                                         *)
(* Part 3: the health registry, the load balancers and the proxy          *)
(*         (internal/health/health.go, internal/proxy).                    *)
(* Part 4: the traffic store, the traffic recorder, the analyzer and the   *)
(*         middleware chain (internal/analytics, internal/middleware).     *)
(*                                                                         *)
(* Each part has its own specification over the one set of variables; the  *)
(* variables of the other parts stay at their initial values.              *)
(*                                                                         *)
(* Real-valued quantities are kept exact as scaled integers: error rates   *)
(* in percent, token counts in 1/TokenScale of a token.  Time is a         *)
(* discrete clock `now`.                                                    *)
(***************************************************************************)
EXTENDS Integers, Sequences, FiniteSets, TLC

\* ------------------------------------------------------------------ bounds
NumReqs == 2            \* requests that may be in the inner handler at once
MaxThreshold == 2       \* static thresholds 1..MaxThreshold
MaxTimeout == 2         \* breaker timeouts 1..MaxTimeout (clock ticks)
MaxCount == 3           \* cap on totalCount / failureCount
MaxFailing == 2         \* liveness runs: failing responses the backends emit
MaxBackendSamples == 2  \* backend baselines have SampleSize 2..MaxBackendSamples

MaxCapacity == 2        \* static bucket capacities 1..MaxCapacity (tokens)
MaxBurst == 3           \* requests recorded per client identity
MaxTicks == 2           \* rate-limiter runs: one-second clock ticks
MaxRequests == 4        \* adaptive-limiter runs: requests in total

MaxBackends == 3        \* backends a selector may hold
RandSteps == 3          \* rand.Float64() takes the values k/RandSteps, k < RandSteps
MaxCalls == 4           \* round-robin calls recorded / counter cap

MaxEvents == 3          \* traffic events recorded in a store run
MaxPrefixes == 3        \* route prefixes configured
MaxPathLen == 4         \* characters in a request path
NumHandlers == 2        \* requests inside the traffic recorder at once
MaxAnalyzerTicks == 2   \* analyzer ticks in a run
MaxStages == 3          \* middlewares given to Chain
MaxWrites == 3          \* calls the proxied handler makes on its writer
MaxAdds == 5            \* logs added to a LogStore in a run
MaxLogCapacity == 3     \* LogStore capacities asked for: 0..MaxLogCapacity

\* ------------------------------------------------------ program constants
SecondsPerMinute == 60  \* rebalance: refillRate := limit / 60.0
RebalanceMinutes == 5   \* rebalance every 5 minutes
MinRouteSamples == 5    \* routes with SampleSize < 5 get no adaptive limit
DefaultMultiplier == 3  \* NewAdaptiveRateLimiter: cfg.Multiplier <= 0
DefaultMinLimit == 10   \* NewAdaptiveRateLimiter: cfg.MinLimit <= 0
DefaultMaxLimit == 10000 \* NewAdaptiveRateLimiter: cfg.MaxLimit <= 0

DefaultRetention == 172800 \* NewMemoryTrafficStore: 48 h, in seconds
ChannelCapacity == 256  \* NewTrafficRecorder: make(chan TrafficEvent, 256)
DefaultWindow == 3600   \* NewAnalyzer: cfg.Window <= 0, 1 h in seconds
DefaultZScoreThreshold == 3 \* NewAnalyzer: cfg.ZScoreThreshold <= 0
AnomalyCapacity == 64   \* NewAnalyzer: make(chan Anomaly, 64)
AnomalyRetention == 86400 \* pruneAnomalies: 24 h in seconds
ErrScale == 60          \* error rates are kept in 1/ErrScale
LogChannelCapacity == 256 \* Capture: make(chan dashboard.RequestLog, 256)
StatusUnauthorized == 401
DefaultLogCapacity == 1000 \* NewLogStore: capacity <= 0

MaxTime == MaxFailing * (MaxTimeout + 1)

\* ------------------------------------------------------------- vocabulary
StateClosed == "CLOSED"
StateOpen == "OPEN"
StateHalfOpen == "HALF_OPEN"

StatusOK == 200
StatusTooManyRequests == 429
StatusServiceUnavailable == 503

\* Status codes the inner handler (auth/proxy/backend) may produce.
HandlerStatuses == {200, 499, 500, 503}

\* Values of the X-Proxy-Backend response header: a backend, or "" when the
\* inner handler set none.
Backends == {"b1"}
HeaderValues == Backends \cup {""}

\* Mean error rates (percent) a backend baseline may carry.
MeanErrorRates == {0, 1, 20}

\* The response a request left the middleware with: its status, whether the
\* inner handler was invoked, and the breaker state found when the response
\* was decided.
NoResponse == [status |-> 0, invoked |-> FALSE, found |-> ""]

NoBaseline == [SampleSize |-> 0, MeanErrorRate |-> 0, present |-> FALSE]
NoLimit == 0 - 1
\* Go's zero time.Time: further in the past than any timeout.
ZeroTime == 0 - (MaxTimeout + 1)

VARIABLES
    \* CircuitBreaker fields
    state, failureCount, totalCount, lastFailure, threshold, timeout, analyzer,
    \* Analyzer as seen by the breaker
    sufficientData, backendBaselines,
    \* wall clock
    now,
    \* request goroutines: how many are inside the inner handler (a goroutine
    \* keeps nothing of its own between admission and recording), and the
    \* response of the request that left the middleware last
    inflight, last,
    \* environment: failing responses the backends may still emit (NoLimit: any)
    failBudget,
    \* observer: outcomes of the requests in order of completion
    hist

VARIABLES
    \* RateLimiter (the static limiter): [maxTokens, refillRate, buckets]
    static,
    \* AdaptiveRateLimiter fields and config
    routeLimiters, lastRebalance, enabled, multiplier, minLimit, maxLimit,
    \* Analyzer.routeBaselines
    routeBaselines,
    \* observer: per client identity, the rate-limit decisions in order and
    \* the time of the first one
    served, firstSeen

VARIABLES
    \* LoadBalancer of the route: backends, strategy, round-robin counter
    lbBackends, strategy, counter,
    \* HealthChecker.backends: per URL "none" (not registered), "healthy" or
    \* "unhealthy"
    hcStatus,
    \* Proxy.routes[route]: "lb" or "wlb"
    routeSelector,
    \* WeightedLoadBalancer: backends, weights, and a Rebalance between its
    \* two critical sections (with its copy of backends)
    wlbBackends, wlbWeights, rebalancing,
    \* Analyzer.backendBaselines as the weighted load balancer reads them
    wlbBaselines,
    \* observers: the selectors' picks since the healthy subset last
    \* changed, the last proxied request, the last AddBackend call
    picks, lastNext, lastReq, lastAdd

VARIABLES
    \* MemoryTrafficStore: routes and backends (key -> minute -> bucket, as
    \* functions whose domains are the keys present), retention in seconds
    storeRoutes, storeBackends, retention,
    \* observers: events recorded, whether a retention sweep has run, the
    \* buckets a GetBuckets call returned
    recorded, swept, returned

cbFields == <<state, failureCount, totalCount, lastFailure>>
cbConfig == <<threshold, timeout, analyzer>>
\* the breaker's part of the state, but for the analyzer's data flag
cbOwn == <<state, failureCount, totalCount, lastFailure, threshold, timeout,
           analyzer, backendBaselines, inflight, last, failBudget, hist>>
arlConfig == <<enabled, multiplier, minLimit, maxLimit>>
rlVars == <<static, routeLimiters, lastRebalance, arlConfig, routeBaselines,
            served, firstSeen>>

lbVars == <<lbBackends, strategy, counter, hcStatus, routeSelector,
            wlbBackends, wlbWeights, rebalancing, wlbBaselines, picks,
            lastNext, lastReq, lastAdd>>

VARIABLES
    \* TrafficRecorder: the route prefixes as declared in the configuration
    \* and as sorted by NewTrafficRecorder, the number of events in the
    \* channel, and per request whether it is inside the inner handler
    declared, trRoutes, queued, trPc,
    \* observers: the last event the recorder built, the last path
    \* normalised
    lastEvent, lastNorm

VARIABLES
    \* Analyzer: config.Window, config.ZScoreThreshold, routeBaselines,
    \* backendBaselines, anomalies, the number of anomalies in
    \* AnomalyChannel, and where a running analyze() is: "idle", or before
    \* "backends" (analyzeBackends) or "prune" (pruneAnomalies), with its
    \* time.Now()
    window, zThreshold, anRouteBaselines, anBackendBaselines, anomalies,
    anChannel, anPc,
    \* observers: ticks started, the tick whose route results and whose
    \* backend results are visible, and a reader that calls
    \* GetAllRouteBaselines and then GetAllBackendBaselines, with the tick
    \* each copy it got came from
    ticks, routeTick, backendTick, reader

storeVars == <<storeRoutes, storeBackends, retention, recorded, swept,
               returned>>
recVars == <<declared, trRoutes, queued, trPc, lastEvent, lastNorm>>
VARIABLES
    \* Chain: the middlewares given, those that call their inner handler,
    \* the handler Chain returned (its layers, outermost first), the
    \* layers entered and not yet returned, whether control is going in
    \* ("call") or out ("return"), and the trace of what ran
    chStages, chCalls, chHandler, chStack, chAt, chTrace

chainVars == <<chStages, chCalls, chHandler, chStack, chAt, chTrace>>
anVars == <<window, zThreshold, anRouteBaselines, anBackendBaselines,
            anomalies, anChannel, anPc, ticks, routeTick, backendTick,
            reader>>
p4Vars == <<storeVars, recVars, anVars, chainVars>>

VARIABLES
    \* One request through the handler main() builds: the handler (its
    \* layers, outermost first), the request, a frame for each layer
    \* entered and not yet returned, the direction ("call" going in,
    \* "return" coming out, "done" when the outermost layer has returned),
    \* the wrappers made around the response writer (outermost first), the
    \* X-Request-ID values in the response's header map, what the server's
    \* own writer has put on the wire, and the context of the request
    \* handed to the next layer
    gwHandler, gwReq, gwFrames, gwAt, gwWriters, gwHeader, gwSent, gwCtx,
    \* Capture's channel of request logs: how many it holds
    gwLogs,
    \* observers: the calls the innermost code made on its writer, the
    \* status each layer read after its inner handler returned, and the
    \* IDs the layers got from GetRequestID
    gwOps, gwSeen, gwRead

gwVars == <<gwHandler, gwReq, gwFrames, gwAt, gwWriters, gwHeader, gwSent,
            gwCtx, gwLogs, gwOps, gwSeen, gwRead>>
VARIABLES
    \* HealthChecker, step by step: the backends map (URL -> Healthy, over
    \* the URLs registered), hc.mu (the goroutine holding it for writing,
    \* those holding it for reading), where each goroutine is, the state of
    \* RunChecks' range loop, the URL a call was made with, and whether the
    \* runtime has stopped the process
    hlBackends, hlMu, hlPc, hlRange, hlArg, hlCrashed,
    \* observer: the accesses made to the map, each with the lock its
    \* goroutine held
    hlAccess

hlVars == <<hlBackends, hlMu, hlPc, hlRange, hlArg, hlCrashed, hlAccess>>

VARIABLES
    \* dashboard.LogStore: logs (indexed from 0), size, index, count
    lsLogs, lsSize, lsIndex, lsCount,
    \* observers: the logs added, oldest first, and the last Recent call
    \* since the last Add with its result
    lsAdded, lsRecent

lsVars == <<lsLogs, lsSize, lsIndex, lsCount, lsAdded, lsRecent>>

VARIABLES
    \* TrafficRecorder's channel with its content: the events in tr.events,
    \* oldest first, and the event the worker has received and not yet
    \* recorded
    tqEvents, tqHand,
    \* environment: requests still to come
    tqBudget,
    \* observers: the ids of the events passed to Record, in order; the
    \* requests completed and the events dropped
    tqLog, tqCompleted, tqDropped

tqVars == <<tqEvents, tqHand, tqBudget, tqLog, tqCompleted, tqDropped>>
p5Vars == <<gwVars, hlVars, lsVars, tqVars>>

vars == <<cbOwn, sufficientData, now, rlVars, lbVars, p4Vars, p5Vars>>

\* ======================================================================
\* Part 1: circuit breaker
\* ======================================================================

\* Analyzer.HasSufficientData: time.Since(startTime) >= Window.  Monotone in
\* time; kept as a flag that LearningElapsed raises.
HasSufficientData == sufficientData

\* Analyzer.GetBackendBaseline: the stored baseline or nil.
GetBackendBaseline(backend) ==
    IF backend \in Backends THEN backendBaselines[backend] ELSE NoBaseline

\* Variant of dynamicThreshold: 3 x the baseline instead of 5 x.
dynamicThreshold_Times3(backend) ==
    IF ~analyzer THEN 100
    ELSE LET baseline == GetBackendBaseline(backend) IN
         IF ~baseline.present \/ baseline.SampleSize < 2 THEN 50
         ELSE LET th == baseline.MeanErrorRate * 3 IN
              IF th < 5 THEN 5 ELSE th

\* CircuitBreaker.dynamicThreshold, in percent.
dynamicThreshold(backend) ==
    IF ~analyzer THEN 100
    ELSE LET baseline == GetBackendBaseline(backend) IN
         IF ~baseline.present \/ baseline.SampleSize < 2 THEN 50
         ELSE LET th == baseline.MeanErrorRate * 5 IN
              IF th < 5 THEN 5 ELSE th

\* float64(fc)/float64(tc) > pct/100, for tc > 0.
RateExceeds(fc, tc, pct) == fc * 100 > pct * tc

\* Variant of shouldTrip: the static comparison is strict.
shouldTrip_OffByOne(fc, tc, backend) ==
    IF analyzer /\ HasSufficientData /\ tc > 0
    THEN RateExceeds(fc, tc, dynamicThreshold(backend))
    ELSE fc > threshold

\* CircuitBreaker.shouldTrip, on the counters as just incremented.
shouldTrip(fc, tc, backend) ==
    IF analyzer /\ HasSufficientData /\ tc > 0
    THEN RateExceeds(fc, tc, dynamicThreshold(backend))
    ELSE fc >= threshold

\* Variant of TimeoutElapsed: inclusive comparison.
TimeoutElapsed_Inclusive == now - lastFailure >= timeout

\* time.Since(cb.lastFailure) > cb.timeout
TimeoutElapsed == now - lastFailure > timeout

\* Variant of Admission: the timeout test is inverted.
Admission_Inverted ==
    IF state = StateOpen
    THEN IF ~TimeoutElapsed
         THEN [state |-> StateHalfOpen, pass |-> TRUE]
         ELSE [state |-> StateOpen, pass |-> FALSE]
    ELSE [state |-> state, pass |-> TRUE]

\* The admission switch (lines 91-109): the state after it, and whether the
\* request goes on to the inner handler.
Admission ==
    IF state = StateOpen
    THEN IF TimeoutElapsed
         THEN [state |-> StateHalfOpen, pass |-> TRUE]
         ELSE [state |-> StateOpen, pass |-> FALSE]
    ELSE [state |-> state, pass |-> TRUE]

\* Variant of FailureOutcome: HALF_OPEN is not treated apart.
FailureOutcome_NoHalfOpen(backend) ==
    LET fc == failureCount + 1
        tc == totalCount + 1
    IN [state |-> IF shouldTrip(fc, tc, backend) THEN StateOpen ELSE state,
        failureCount |-> fc,
        totalCount |-> tc,
        lastFailure |-> now]

\* The failure branch (lines 121-131).
FailureOutcome(backend) ==
    LET fc == failureCount + 1
        tc == totalCount + 1
    IN [state |-> IF state = StateHalfOpen THEN StateOpen
                  ELSE IF shouldTrip(fc, tc, backend) THEN StateOpen
                  ELSE state,
        failureCount |-> fc,
        totalCount |-> tc,
        lastFailure |-> now]

\* Variant of SuccessOutcome: totalCount is not reset.
SuccessOutcome_KeepTotal ==
    [state |-> StateClosed, failureCount |-> 0, totalCount |-> totalCount,
     lastFailure |-> lastFailure]

\* Variant of SuccessOutcome: a success does not close an OPEN breaker.
SuccessOutcome_KeepOpen ==
    [state |-> IF state = StateOpen THEN StateOpen ELSE StateClosed,
     failureCount |-> 0, totalCount |-> 0, lastFailure |-> lastFailure]

\* The success branch (lines 132-137).
SuccessOutcome ==
    [state |-> StateClosed, failureCount |-> 0, totalCount |-> 0,
     lastFailure |-> lastFailure]

\* Recording of an outcome (lines 119-138).
Outcome(status, backend) ==
    IF status >= 500 THEN FailureOutcome(backend) ELSE SuccessOutcome

\* A request enters the middleware: lines 91-109 under cb.mu.
Arrive ==
    /\ LET a == Admission IN
       /\ a.pass => inflight < NumReqs
       /\ state' = a.state
       /\ IF a.pass
          THEN /\ inflight' = inflight + 1
               /\ last' = last
          ELSE /\ inflight' = inflight
               /\ last' = [status |-> StatusServiceUnavailable,
                           invoked |-> FALSE, found |-> state]
    /\ UNCHANGED <<failureCount, totalCount, lastFailure, cbConfig,
                   sufficientData, backendBaselines, failBudget, now>>

\* The inner handler of one request returned `status` with header value
\* `backend`; the outcome is recorded under cb.mu: lines 113-138.
Complete(status, backend) ==
    /\ inflight > 0
    /\ status >= 500 => /\ failBudget # 0
                        /\ totalCount < MaxCount
    /\ LET o == Outcome(status, backend) IN
       /\ state' = o.state
       /\ failureCount' = o.failureCount
       /\ totalCount' = o.totalCount
       /\ lastFailure' = o.lastFailure
    /\ failBudget' = IF status >= 500 /\ failBudget > 0
                     THEN failBudget - 1 ELSE failBudget
    /\ inflight' = inflight - 1
    /\ last' = [status |-> status, invoked |-> TRUE, found |-> state]
    /\ UNCHANGED <<cbConfig, sufficientData, backendBaselines, now>>

\* The clock advances.  The breaker reads it only in TimeoutElapsed, which
\* it evaluates only when OPEN, and every step into OPEN sets lastFailure to
\* now: ticks are modelled while the breaker is OPEN and they can still
\* change that reading.
Tick ==
    /\ state = StateOpen
    /\ ~TimeoutElapsed
    /\ now < MaxTime
    /\ now' = now + 1
    /\ UNCHANGED <<cbFields, cbConfig, sufficientData, backendBaselines,
                   inflight, last, failBudget>>

\* analytics.Analyzer.analyzeBackends stores a baseline (>= 2 buckets).
AnalyzeBackends(backend, n, rate) ==
    /\ analyzer
    /\ backendBaselines' = [backendBaselines EXCEPT ![backend] =
           [SampleSize |-> n, MeanErrorRate |-> rate, present |-> TRUE]]
    /\ UNCHANGED <<cbFields, cbConfig, sufficientData, inflight, last,
                   failBudget, now>>

\* One analysis window has passed since the analyzer started.
LearningElapsed ==
    /\ analyzer
    /\ ~sufficientData
    /\ sufficientData' = TRUE
    /\ UNCHANGED <<cbFields, cbConfig, backendBaselines, inflight, last,
                   failBudget, now>>

\* NewCircuitBreaker, and main.go's SetAnalyzer when analytics is enabled.
CBInit ==
    /\ state = StateClosed
    /\ failureCount = 0
    /\ totalCount = 0
    /\ lastFailure = ZeroTime
    /\ threshold \in 1..MaxThreshold
    /\ timeout \in 1..MaxTimeout
    /\ analyzer \in BOOLEAN
    /\ backendBaselines = [b \in Backends |-> NoBaseline]
    /\ inflight = 0
    /\ last = NoResponse

\* ======================================================================
\* Part 2: token-bucket rate limiter, adaptive rate limiter
\* ======================================================================
\* Tokens are counted in units of 1/TokenScale token and the clock ticks in
\* seconds, so a refill rate of limit/60 tokens per second is `limit` units
\* per tick.
TokenScale == SecondsPerMinute
RebalanceInterval == RebalanceMinutes * SecondsPerMinute
ZeroTimeRL == 0 - (RebalanceInterval + 1)
Horizon == RebalanceInterval + 1 + MaxTicks

IPs == {"ip1", "ip2"}
Routes == {"/a"}

\* Static refill rates (units per tick): 1/60, 59/60 and 1 token per second.
StaticRefillRates == {1, TokenScale - 1, TokenScale}
\* Route baselines: sample sizes and mean request rates per minute.
RouteSampleSizes == {2, MinRouteSamples}
MeanRates == {0, 2}
\* Configured values (AdaptiveRateLimitConfig); 0 stands for "not set".
Multipliers == {0, 1}
MinLimits == {1}
MaxLimits == {2}

NoBucket == [tokens |-> 0, maxTokens |-> 0, refillRate |-> 0,
             lastRefill |-> 0, present |-> FALSE]
NoLimiter == [maxTokens |-> 0, refillRate |-> 0,
              buckets |-> [ip \in IPs |-> NoBucket], present |-> FALSE]
NoRouteBaseline == [SampleSize |-> 0, MeanRate |-> 0, present |-> FALSE]

\* NewRateLimiter(maxTokens, refillRate), both in units.
NewRateLimiter(maxT, rate) ==
    [maxTokens |-> maxT, refillRate |-> rate,
     buckets |-> [ip \in IPs |-> NoBucket], present |-> TRUE]

\* bucket.refill
refill(b) ==
    LET elapsed == now - b.lastRefill
        t == b.tokens + elapsed * b.refillRate
    IN [b EXCEPT !.tokens = IF t > b.maxTokens THEN b.maxTokens ELSE t,
                 !.lastRefill = now]

\* Variant of allow: more than one token is needed.
allow_Strict(b) ==
    LET rb == refill(b) IN
    IF rb.tokens > TokenScale
    THEN [bucket |-> [rb EXCEPT !.tokens = @ - TokenScale], ok |-> TRUE]
    ELSE [bucket |-> rb, ok |-> FALSE]

\* bucket.allow: the bucket after the call and the answer.
allow(b) ==
    LET rb == refill(b) IN
    IF rb.tokens >= TokenScale
    THEN [bucket |-> [rb EXCEPT !.tokens = @ - TokenScale], ok |-> TRUE]
    ELSE [bucket |-> rb, ok |-> FALSE]

\* Variant of getBucket: a new bucket starts empty.
getBucket_Empty(rl, ip) ==
    IF rl.buckets[ip].present THEN rl.buckets[ip]
    ELSE [tokens |-> 0, maxTokens |-> rl.maxTokens,
          refillRate |-> rl.refillRate, lastRefill |-> now, present |-> TRUE]

\* RateLimiter.getBucket: the client's bucket, a full one when first seen.
getBucket(rl, ip) ==
    IF rl.buckets[ip].present THEN rl.buckets[ip]
    ELSE [tokens |-> rl.maxTokens, maxTokens |-> rl.maxTokens,
          refillRate |-> rl.refillRate, lastRefill |-> now, present |-> TRUE]

\* The locked section of the middleware: getBucket, then allow.
Decide(rl, ip) ==
    LET a == allow(getBucket(rl, ip)) IN
    [limiter |-> [rl EXCEPT !.buckets[ip] = a.bucket], ok |-> a.ok]

\* What RateLimiter.Middleware does with the answer: 429 and return, or
\* call next (whose response is taken to be 200).
RateLimiterRespond(ok) ==
    IF ~ok THEN [status |-> StatusTooManyRequests, next |-> FALSE]
    ELSE [status |-> StatusOK, next |-> TRUE]

\* Variant of AdaptiveRespond: the return after the 429 is missing.
AdaptiveRespond_NoReturn(ok) ==
    IF ~ok THEN [status |-> StatusTooManyRequests, next |-> TRUE]
    ELSE [status |-> StatusOK, next |-> TRUE]

\* The same in AdaptiveRateLimiter.Middleware, for a per-route limiter.
AdaptiveRespond(ok) ==
    IF ~ok THEN [status |-> StatusTooManyRequests, next |-> FALSE]
    ELSE [status |-> StatusOK, next |-> TRUE]

\* NewAdaptiveRateLimiter: a configured value, or its default when <= 0.
ConfigOrDefault(v, d) == IF v <= 0 THEN d ELSE v

\* The observer's record of one decision.
Observe(ip, ok, response, via) ==
    /\ served' = [served EXCEPT ![ip] =
                      Append(@, [allowed |-> ok, status |-> response.status,
                                 next |-> response.next, via |-> via])]
    /\ firstSeen' = IF served[ip] = <<>>
                    THEN [firstSeen EXCEPT ![ip] = now] ELSE firstSeen

\* RateLimiter.Middleware of the static limiter, for one request.
StaticMiddleware(ip) ==
    LET d == Decide(static, ip) IN
    /\ static' = d.limiter
    /\ Observe(ip, d.ok, RateLimiterRespond(d.ok), "static")

\* Variant of ClampedLimit: the upper clamp is missing.
ClampedLimit_NoUpper(baseline) ==
    LET limit == baseline.MeanRate * multiplier
    IN IF limit < minLimit THEN minLimit ELSE limit

\* AdaptiveRateLimiter.rebalance: the limit of a baseline, and the new map.
ClampedLimit(baseline) ==
    LET limit == baseline.MeanRate * multiplier
        low == IF limit < minLimit THEN minLimit ELSE limit
    IN IF low > maxLimit THEN maxLimit ELSE low

rebalance ==
    [route \in Routes |->
        LET baseline == routeBaselines[route]
            limit == ClampedLimit(baseline) * TokenScale
            existing == routeLimiters[route]
        IN IF ~baseline.present \/ baseline.SampleSize < MinRouteSamples
           THEN existing
           ELSE IF ~existing.present \/ existing.maxTokens # limit
                THEN NewRateLimiter(limit, limit \div SecondsPerMinute)
                ELSE existing]

\* A request through the static limiter alone (adaptive limiting not wired).
StaticRequest(ip) ==
    /\ Len(served[ip]) < MaxBurst
    /\ StaticMiddleware(ip)
    /\ UNCHANGED <<routeLimiters, lastRebalance, arlConfig, routeBaselines,
                   now, sufficientData, cbOwn, lbVars, p4Vars, p5Vars>>

\* AdaptiveRateLimiter.Middleware, for one request of client ip on route.
AdaptiveRequest(ip, route) ==
    /\ Len(served[ip]) < MaxBurst
    /\ IF ~enabled \/ ~HasSufficientData
       THEN /\ StaticMiddleware(ip)
            /\ UNCHANGED <<routeLimiters, lastRebalance>>
       ELSE LET needsRebalance == now - lastRebalance > RebalanceInterval
                limiters == IF needsRebalance THEN rebalance
                            ELSE routeLimiters
            IN /\ lastRebalance' = IF needsRebalance THEN now
                                   ELSE lastRebalance
               /\ IF ~limiters[route].present
                  THEN /\ StaticMiddleware(ip)
                       /\ routeLimiters' = limiters
                  ELSE LET d == Decide(limiters[route], ip) IN
                       /\ routeLimiters' =
                              [limiters EXCEPT ![route] = d.limiter]
                       /\ Observe(ip, d.ok, AdaptiveRespond(d.ok), route)
                       /\ static' = static
    /\ UNCHANGED <<arlConfig, routeBaselines, now, sufficientData, cbOwn, lbVars, p4Vars, p5Vars>>

\* analytics.Analyzer.analyzeRoutes stores a route baseline (>= 2 buckets).
AnalyzeRoutes(route, n, rate) ==
    /\ routeBaselines' = [routeBaselines EXCEPT ![route] =
           [SampleSize |-> n, MeanRate |-> rate, present |-> TRUE]]
    /\ UNCHANGED <<static, routeLimiters, lastRebalance, arlConfig, served,
                   firstSeen, now, sufficientData, cbOwn, lbVars, p4Vars, p5Vars>>

\* One analysis window has passed since the analyzer started.
RLLearningElapsed ==
    /\ ~sufficientData
    /\ sufficientData' = TRUE
    /\ UNCHANGED <<rlVars, now, cbOwn, lbVars, p4Vars, p5Vars>>

\* The clock advances by d seconds: second by second for MaxTicks seconds,
\* or at once past the rebalance interval.
AdvanceClock(d) ==
    /\ d = 1 => now % (RebalanceInterval + 1) < MaxTicks
    /\ now + d <= Horizon
    /\ now' = now + d
    /\ UNCHANGED <<rlVars, sufficientData, cbOwn, lbVars, p4Vars, p5Vars>>

\* NewRateLimiter for the static limiter; NewAdaptiveRateLimiter.
RLInit ==
    /\ static \in {NewRateLimiter(c * TokenScale, r) :
                       c \in 1..MaxCapacity, r \in StaticRefillRates}
    /\ routeLimiters = [route \in Routes |-> NoLimiter]
    /\ lastRebalance = ZeroTimeRL
    /\ enabled \in BOOLEAN
    /\ multiplier \in {ConfigOrDefault(m, DefaultMultiplier) : m \in Multipliers}
    /\ minLimit \in {ConfigOrDefault(m, DefaultMinLimit) : m \in MinLimits}
    /\ maxLimit \in {ConfigOrDefault(m, DefaultMaxLimit) : m \in MaxLimits}
    /\ routeBaselines = [route \in Routes |-> NoRouteBaseline]
    /\ served = [ip \in IPs |-> <<>>]
    /\ firstSeen = [ip \in IPs |-> 0]

\* ======================================================================
\* Part 3: health registry, load balancers, proxy
\* ======================================================================
\* Weights are kept exact as reduced fractions [n, d]; latencies in whole
\* milliseconds, error rates in percent.
URLs == {"u1", "u2", "u3"}
ProxyRoute == "/a"
UnknownRoute == "/x"

\* Backend baselines the weighted load balancer may find (SampleSize >= 2).
WlbBaselineValues ==
    {[SampleSize |-> 2, MeanLatencyMs |-> l, MeanErrorRate |-> e,
      present |-> TRUE] : l \in {0, 20}, e \in {0}}
        \cup {[SampleSize |-> 2, MeanLatencyMs |-> 20, MeanErrorRate |-> 100,
                present |-> TRUE]}
NoWlbBaseline == [SampleSize |-> 0, MeanLatencyMs |-> 0, MeanErrorRate |-> 0,
                  present |-> FALSE]

RECURSIVE GCD(_, _)
GCD(a, b) == IF b = 0 THEN a ELSE GCD(b, a % b)

Rat(n, d) == LET g == GCD(n, d) IN [n |-> n \div g, d |-> d \div g]
RatAdd(a, b) == Rat(a.n * b.d + b.n * a.d, a.d * b.d)
RatMul(a, b) == Rat(a.n * b.n, a.d * b.d)
RatDiv(a, b) == Rat(a.n * b.d, a.d * b.n)
RatLE(a, b) == a.n * b.d <= b.n * a.d
RatZero == Rat(0, 1)
RatOne == Rat(1, 1)

RECURSIVE SumWeights(_)
SumWeights(ws) ==
    IF ws = <<>> THEN RatZero
    ELSE RatAdd(ws[1].weight, SumWeights(Tail(ws)))

\* HealthChecker.IsHealthy: false for a URL that is not registered.
IsHealthy(url) == hcStatus[url] = "healthy"

\* NewHealthChecker: the configured backends start healthy.
NewHealthChecker(backendURLs) ==
    [u \in URLs |->
        IF \E i \in 1..Len(backendURLs) : backendURLs[i] = u
        THEN "healthy" ELSE "none"]

\* initEqualWeights
initEqualWeights(backends) ==
    [i \in 1..Len(backends) |->
        [url |-> backends[i], weight |-> Rat(1, Len(backends))]]

\* computeWeight(avgLatencyMs, errorRate)
computeWeight(avgLatencyMs, errorRate) ==
    LET latency == IF avgLatencyMs < 1 THEN 1 ELSE avgLatencyMs
        reliability == IF 100 - errorRate < 1 THEN 1 ELSE 100 - errorRate
    IN RatMul(Rat(1, latency), Rat(reliability, 100))

\* Rebalance, lines 96-106: the weight of one backend before normalizing.
RawWeight(backend) ==
    LET baseline == wlbBaselines[backend] IN
    IF ~baseline.present \/ baseline.SampleSize < 2 THEN RatOne
    ELSE computeWeight(baseline.MeanLatencyMs, baseline.MeanErrorRate)

\* Rebalance, lines 93-113: the normalized weights for a copy of backends.
NewWeights(backends) ==
    LET raw == [i \in 1..Len(backends) |->
                   [url |-> backends[i], weight |-> RawWeight(backends[i])]]
        totalWeight == SumWeights(raw)
    IN IF totalWeight.n > 0
       THEN [i \in 1..Len(raw) |->
                [raw[i] EXCEPT !.weight = RatDiv(@, totalWeight)]]
       ELSE raw

NotRebalancing == [active |-> FALSE, backends |-> <<>>]

\* Rebalance, lines 88-91: the copy of backends taken under the read lock.
RebalanceCopy ==
    /\ ~rebalancing.active
    /\ rebalancing' = [active |-> TRUE, backends |-> wlbBackends]
    /\ UNCHANGED <<lbBackends, strategy, counter, hcStatus, routeSelector,
                   wlbBackends, wlbWeights, wlbBaselines, picks, lastNext,
                   lastReq, lastAdd>>

\* Rebalance, lines 93-117: the weights computed from the copy are stored.
RebalanceStore ==
    /\ rebalancing.active
    /\ wlbWeights' = NewWeights(rebalancing.backends)
    /\ rebalancing' = NotRebalancing
    /\ UNCHANGED <<lbBackends, strategy, counter, hcStatus, routeSelector,
                   wlbBackends, wlbBaselines, picks, lastNext, lastReq,
                   lastAdd>>

\* WeightedLoadBalancer.AddBackend: the fields after the call.
WeightedAddBackend(url) ==
    LET backends == Append(wlbBackends, url)
        avgWeight == Rat(1, Len(backends))
    IN [backends |-> backends,
        weights |-> Append(wlbWeights, [url |-> url, weight |-> avgWeight])]

\* The weight at which the cumulative sum of ws first reaches r, else 0.
RECURSIVE FirstReaching(_, _, _, _)
FirstReaching(ws, r, i, cumulative) ==
    IF i > Len(ws) THEN 0
    ELSE LET c == RatAdd(cumulative, ws[i].weight) IN
         IF RatLE(r, c) THEN i ELSE FirstReaching(ws, r, i + 1, c)

\* WeightedLoadBalancer.Next, with rand.Float64() = k/RandSteps.
WeightedNext(k) ==
    LET filtered == SelectSeq(wlbWeights, LAMBDA w : IsHealthy(w.url))
        healthy == IF filtered = <<>> THEN wlbWeights ELSE filtered
        totalWeight == SumWeights(healthy)
    IN IF healthy = <<>> THEN ""
       ELSE LET r == RatMul(Rat(k, RandSteps), totalWeight)
                i == FirstReaching(healthy, r, 1, RatZero)
            IN IF i > 0 THEN healthy[i].url ELSE healthy[Len(healthy)].url

\* A call of WeightedLoadBalancer.Next.
WlbNext(k) ==
    /\ lastNext' = [by |-> "wlb", url |-> WeightedNext(k)]
    /\ UNCHANGED <<lbBackends, strategy, counter, hcStatus, routeSelector,
                   wlbBackends, wlbWeights, rebalancing, wlbBaselines, picks,
                   lastReq, lastAdd>>

\* HealthChecker.RunChecks, for one registered backend: the probe's result
\* is stored.
RunCheck(url, ok) ==
    /\ hcStatus[url] # "none"
    /\ hcStatus' = [hcStatus EXCEPT ![url] =
                        IF ok THEN "healthy" ELSE "unhealthy"]
    /\ picks' = IF hcStatus' = hcStatus THEN picks ELSE <<>>
    /\ UNCHANGED <<lbBackends, strategy, counter, routeSelector, wlbBackends,
                   wlbWeights, rebalancing, wlbBaselines, lastNext, lastReq,
                   lastAdd>>

\* HealthChecker.AddBackend: a new URL is registered as unhealthy.
HealthAddBackend(url) ==
    IF hcStatus[url] = "none"
    THEN [hcStatus EXCEPT ![url] = "unhealthy"] ELSE hcStatus

\* analytics.Analyzer.analyzeBackends stores a baseline (>= 2 buckets).
AnalyzeWlbBackends(url, baseline) ==
    /\ wlbBaselines' = [wlbBaselines EXCEPT ![url] = baseline]
    /\ UNCHANGED <<lbBackends, strategy, counter, hcStatus, routeSelector,
                   wlbBackends, wlbWeights, rebalancing, picks, lastNext,
                   lastReq, lastAdd>>

NoNext == [by |-> "", url |-> ""]
NoRequest == [by |-> "", backend |-> "", status |-> 0, forwarded |-> FALSE,
              header |-> ""]
NoAdd == [route |-> "none", err |-> FALSE]

\* Status codes and X-Proxy-Backend header values a backend's response may
\* carry (the reverse proxy relays the backend's response headers).
UpstreamStatuses == {200, 500}
UpstreamHeaders == {"", "u1"}

Range(q) == {q[i] : i \in 1..Len(q)}
\* URLs no selector holds yet: the backends of new processes.
NewURLs == URLs \ (Range(lbBackends) \cup Range(wlbBackends))

\* Backend lists a route may be configured with.
ConfiguredBackends == {<<>>, <<"u1">>, <<"u1", "u2">>}
Strategies == {"", "random"}

\* NewLoadBalancer: the strategy defaults to round-robin.
NewLoadBalancer(configured) ==
    IF configured = "" THEN "round-robin" ELSE configured

\* Variant of healthyBackends: no fallback to the full list.
healthyBackends_NoFallback == SelectSeq(lbBackends, IsHealthy)

\* LoadBalancer.healthyBackends (the health checker is never nil in main).
healthyBackends ==
    LET healthy == SelectSeq(lbBackends, IsHealthy) IN
    IF healthy = <<>> THEN lbBackends ELSE healthy

\* Variant of LoadBalancerNext: the counter is used before the increment
\* and advanced by two.
LoadBalancerNext_SkipOne(rnd) ==
    LET healthy == healthyBackends IN
    IF healthy = <<>> THEN [url |-> "", counter |-> counter]
    ELSE IF strategy = "random"
         THEN [url |-> healthy[(rnd % Len(healthy)) + 1],
               counter |-> counter]
         ELSE LET idx == counter + 2 IN
              [url |-> healthy[(counter % Len(healthy)) + 1],
               counter |-> idx]

\* LoadBalancer.Next, with rand.Intn(n) = rnd % n: the URL returned and the
\* counter after the call.  The counter is a uint64 that starts at 0; no run
\* modelled comes near its wrap.
LoadBalancerNext(rnd) ==
    LET healthy == healthyBackends IN
    IF healthy = <<>> THEN [url |-> "", counter |-> counter]
    ELSE IF strategy = "random"
         THEN [url |-> healthy[(rnd % Len(healthy)) + 1],
               counter |-> counter]
         ELSE LET idx == counter + 1 IN
              [url |-> healthy[(idx % Len(healthy)) + 1], counter |-> idx]

\* The handler NewProxy registers for the route: it picks with the
\* LoadBalancer it was created with, answers 503 on an empty pick, and
\* otherwise relays the backend's response.
ProxyHandler(rnd, upstreamStatus, upstreamHeader) ==
    LET next == LoadBalancerNext(rnd) IN
    [counter |-> next.counter,
     response |-> IF next.url = ""
                  THEN [by |-> "lb", backend |-> "",
                        status |-> StatusServiceUnavailable,
                        forwarded |-> FALSE, header |-> ""]
                  ELSE [by |-> "lb", backend |-> next.url,
                        status |-> upstreamStatus, forwarded |-> TRUE,
                        header |-> upstreamHeader]]

\* A request for the route reaches the proxy.
ProxyRequest(rnd, upstreamStatus, upstreamHeader) ==
    LET h == ProxyHandler(rnd, upstreamStatus, upstreamHeader) IN
    /\ counter < MaxCalls
    /\ counter' = h.counter
    /\ lastReq' = h.response
    /\ picks' = IF strategy = "round-robin" /\ h.response.forwarded
                THEN Append(picks, h.response.backend) ELSE picks
    /\ UNCHANGED <<lbBackends, strategy, hcStatus, routeSelector, wlbBackends,
                   wlbWeights, rebalancing, wlbBaselines, lastNext, lastAdd>>

\* Proxy.AddBackend: the selectors after the call, and whether it failed.
ProxyAddBackend(route, url) ==
    IF route # ProxyRoute
    THEN [lb |-> lbBackends, wlb |-> wlbBackends, weights |-> wlbWeights,
          err |-> TRUE]
    ELSE IF routeSelector = "lb"
         THEN [lb |-> Append(lbBackends, url), wlb |-> wlbBackends,
               weights |-> wlbWeights, err |-> FALSE]
         ELSE [lb |-> lbBackends, wlb |-> WeightedAddBackend(url).backends,
               weights |-> WeightedAddBackend(url).weights, err |-> FALSE]

\* API.handleProcesses, POST, lines 127-135: the backend of a new process
\* is registered with the route's selector (when a route is given) and
\* with the health checker.
AddProcess(route, url) ==
    LET a == IF route = ""
             THEN [lb |-> lbBackends, wlb |-> wlbBackends,
                   weights |-> wlbWeights, err |-> FALSE]
             ELSE ProxyAddBackend(route, url)
    IN /\ Len(lbBackends) < MaxBackends
       /\ Len(wlbBackends) < MaxBackends
       /\ lbBackends' = a.lb
       /\ wlbBackends' = a.wlb
       /\ wlbWeights' = a.weights
       /\ hcStatus' = IF a.err THEN hcStatus ELSE HealthAddBackend(url)
       /\ lastAdd' = [route |-> route, err |-> a.err]
       /\ picks' = IF a.lb = lbBackends THEN picks ELSE <<>>
       /\ UNCHANGED <<strategy, counter, routeSelector, rebalancing,
                      wlbBaselines, lastNext, lastReq>>

\* main, lines 124-139, at startup for a route with several backends:
\* NewWeightedLoadBalancer, StartRebalancing (its immediate Rebalance),
\* SetRouteSelector.
StartWeightedLB ==
    /\ routeSelector = "lb"
    /\ lastReq = NoRequest /\ lastAdd = NoAdd
    /\ Len(lbBackends) > 1
    /\ wlbBackends' = lbBackends
    /\ wlbWeights' = NewWeights(lbBackends)
    /\ routeSelector' = "wlb"
    /\ UNCHANGED <<lbBackends, strategy, counter, hcStatus, rebalancing,
                   wlbBaselines, picks, lastNext, lastReq, lastAdd>>

\* NewHealthChecker, NewProxy (NewLoadBalancer for the route).
LBInit ==
    /\ lbBackends \in ConfiguredBackends
    /\ strategy \in {NewLoadBalancer(c) : c \in Strategies}
    /\ counter = 0
    /\ hcStatus = NewHealthChecker(lbBackends)
    /\ routeSelector = "lb"
    /\ wlbBackends = <<>>
    /\ wlbWeights = <<>>
    /\ rebalancing = NotRebalancing
    /\ wlbBaselines = [u \in URLs |-> NoWlbBaseline]
    /\ picks = <<>>
    /\ lastNext = NoNext
    /\ lastReq = NoRequest
    /\ lastAdd = NoAdd

\* ======================================================================
\* Part 4: traffic store, traffic recorder, analyzer, middleware chain
\* ======================================================================

\* ------------------------------------------------------- traffic store
\* Times are whole seconds; latencies are whole units of time.Duration.
StoreRoutes == {"/a", "/b"}
StoreBackendURLs == {"", "u1"}
EventTimes == {0, 61, 120}
EventLatencies == {0, 3}
EventStatuses == {200, 500}
TrafficEvents ==
    [Route : StoreRoutes, Backend : StoreBackendURLs, Status : EventStatuses,
     Latency : EventLatencies, Timestamp : EventTimes]

\* Retention periods configured (0: not set) and the times of sweeps.
Retentions == {0, SecondsPerMinute}
SweepTimes == {120, 121, DefaultRetention + 61}
\* Bounds of the ranges queried; EndOfTime is later than every bucket.
EndOfTime == 3 * SecondsPerMinute
QueryTimes == {0, 60, 61, 120, EndOfTime}
QueryRanges == {<<0, EndOfTime>>, <<0, 120>>, <<61, EndOfTime>>}

EmptyMap == [x \in {} |-> 0]

\* NewMemoryTrafficStore: the retention period in force.
NewMemoryTrafficStore(configured) ==
    IF configured <= 0 THEN DefaultRetention ELSE configured

\* time.Time.Truncate(time.Minute)
Truncate(timestamp) == (timestamp \div SecondsPerMinute) * SecondsPerMinute

\* Variant of NewBucket: a new bucket starts with one request counted.
NewBucket_Counted(key, minute) ==
    [Route |-> key, Timestamp |-> minute, RequestCount |-> 1,
     ErrorCount |-> 0, TotalLatency |-> 0, MaxLatency |-> 0]

\* &Bucket{Route: key, Timestamp: minute} (the byte counters are left out)
NewBucket(key, minute) ==
    [Route |-> key, Timestamp |-> minute, RequestCount |-> 0,
     ErrorCount |-> 0, TotalLatency |-> 0, MaxLatency |-> 0]

\* Bucket.AvgLatency
AvgLatency(b) ==
    IF b.RequestCount = 0 THEN 0 ELSE b.TotalLatency \div b.RequestCount

\* Variant of recordInto: every event counts as an error.
recordInto_AllErrors(m, key, minute, event) ==
    LET inner == IF key \in DOMAIN m THEN m[key] ELSE EmptyMap
        b == IF minute \in DOMAIN inner THEN inner[minute]
             ELSE NewBucket(key, minute)
        updated == [b EXCEPT !.RequestCount = @ + 1,
                             !.TotalLatency = @ + event.Latency,
                             !.MaxLatency = IF event.Latency > @
                                            THEN event.Latency ELSE @,
                             !.ErrorCount = IF event.Status >= 200
                                            THEN @ + 2 ELSE @]
    IN (key :> ((minute :> updated) @@ inner)) @@ m

\* MemoryTrafficStore.recordInto: the map after the event is added.
recordInto(m, key, minute, event) ==
    LET inner == IF key \in DOMAIN m THEN m[key] ELSE EmptyMap
        b == IF minute \in DOMAIN inner THEN inner[minute]
             ELSE NewBucket(key, minute)
        updated == [b EXCEPT !.RequestCount = @ + 1,
                             !.TotalLatency = @ + event.Latency,
                             !.MaxLatency = IF event.Latency > @
                                            THEN event.Latency ELSE @,
                             !.ErrorCount = IF event.Status >= 500
                                            THEN @ + 1 ELSE @]
    IN (key :> ((minute :> updated) @@ inner)) @@ m

\* MemoryTrafficStore.Record; the whole body runs under the store's mutex.
Record(event) ==
    LET minute == Truncate(event.Timestamp) IN
    /\ recorded < MaxEvents
    /\ storeRoutes' = recordInto(storeRoutes, event.Route, minute, event)
    /\ storeBackends' = IF event.Backend # ""
                        THEN recordInto(storeBackends, event.Backend, minute,
                                        event)
                        ELSE storeBackends
    /\ recorded' = recorded + 1
    /\ UNCHANGED <<retention, swept, returned>>

\* sort.Slice by Timestamp, on buckets of distinct timestamps.
RECURSIVE SortByTimestamp(_)
SortByTimestamp(buckets) ==
    IF buckets = {} THEN <<>>
    ELSE LET first == CHOOSE b \in buckets :
                          \A c \in buckets : b.Timestamp <= c.Timestamp
         IN <<first>> \o SortByTimestamp(buckets \ {first})

\* Variant of collectBuckets: the upper bound is inclusive.
collectBuckets_Inclusive(bucketMap, from, to) ==
    SortByTimestamp({bucketMap[ts] : ts \in {t \in DOMAIN bucketMap :
                                                ~(t < from) /\ t <= to}})

\* MemoryTrafficStore.collectBuckets: copies of the buckets in [from, to),
\* sorted.
collectBuckets(bucketMap, from, to) ==
    SortByTimestamp({bucketMap[ts] : ts \in {t \in DOMAIN bucketMap :
                                                ~(t < from) /\ t < to}})

\* MemoryTrafficStore.GetBuckets (s.routes[route] is nil for an unknown
\* route).
GetBuckets(route, from, to) ==
    IF route \in DOMAIN storeRoutes
    THEN collectBuckets(storeRoutes[route], from, to) ELSE <<>>

\* MemoryTrafficStore.GetAllBuckets: the routes with a bucket in range.
GetAllBuckets(from, to) ==
    LET inRange == {route \in DOMAIN storeRoutes :
                        Len(collectBuckets(storeRoutes[route], from, to)) > 0}
    IN [route \in inRange |-> collectBuckets(storeRoutes[route], from, to)]

\* MemoryTrafficStore.GetBackendBuckets
GetBackendBuckets(from, to) ==
    LET inRange == {backend \in DOMAIN storeBackends :
                        Len(collectBuckets(storeBackends[backend], from, to)) > 0}
    IN [backend \in inRange |->
            collectBuckets(storeBackends[backend], from, to)]

\* A GetBuckets call; the caller keeps the slice returned, which holds
\* copies of the buckets (*b).
Query(route, from, to) ==
    /\ returned.route = ""
    /\ returned' = [route |-> route, from |-> from, to |-> to,
                    buckets |-> GetBuckets(route, from, to)]
    /\ UNCHANGED <<storeRoutes, storeBackends, retention, recorded, swept>>

\* Variant of pruneMap: buckets at the cutoff are removed too.
pruneMap_AtCutoff(m, cutoff) ==
    LET kept(key) == {ts \in DOMAIN m[key] : ~(ts <= cutoff)}
        keys == {key \in DOMAIN m : kept(key) # {}}
    IN [key \in keys |-> [ts \in kept(key) |-> m[key][ts]]]

\* pruneMap: buckets before the cutoff are deleted, then outer keys left
\* without buckets.
pruneMap(m, cutoff) ==
    LET kept(key) == {ts \in DOMAIN m[key] : ~(ts < cutoff)}
        keys == {key \in DOMAIN m : kept(key) # {}}
    IN [key \in keys |-> [ts \in kept(key) |-> m[key][ts]]]

\* MemoryTrafficStore.cleanup with time.Now() = T: both maps afterwards.
cleanup(T) ==
    LET cutoff == T - retention IN
    [routes |-> pruneMap(storeRoutes, cutoff),
     backends |-> pruneMap(storeBackends, cutoff)]

\* A retention sweep.
Sweep(T) ==
    /\ storeRoutes' = cleanup(T).routes
    /\ storeBackends' = cleanup(T).backends
    /\ swept' = TRUE
    /\ UNCHANGED <<retention, recorded, returned>>

NoQuery == [route |-> "", from |-> 0, to |-> 0, buckets |-> <<>>]

\* A new store (NewMemoryTrafficStore).
StoreInit ==
    /\ storeRoutes = EmptyMap
    /\ storeBackends = EmptyMap
    /\ retention \in {NewMemoryTrafficStore(r) : r \in Retentions}
    /\ recorded = 0
    /\ swept = FALSE
    /\ returned = NoQuery

StoreIdle == StoreInit /\ retention = DefaultRetention

\* ---------------------------------------------------- traffic recorder
\* Paths and prefixes are sequences of characters.
Alphabet == {"/", "a", "b"}
Paths == UNION {[1..n -> Alphabet] : n \in 0..MaxPathLen}
PrefixPool ==
    {<<"/">>, <<"/", "a">>, <<"/", "b">>, <<"/", "a", "b">>,
     <<"/", "a", "/", "b">>}
\* Lists of distinct prefixes, in every order of declaration.
DeclaredLists ==
    UNION {{q \in [1..n -> PrefixPool] :
                \A i \in 1..n, j \in 1..n : i # j => q[i] # q[j]} :
           n \in 0..MaxPrefixes}

\* strings.HasPrefix
HasPrefix(path, prefix) ==
    /\ Len(prefix) <= Len(path)
    /\ SubSeq(path, 1, Len(prefix)) = prefix

\* NewTrafficRecorder's sort.Slice by descending length: the orders it may
\* leave the prefixes in (sort.Slice is not stable).
SortedLongestFirst(prefixes) ==
    {q \in [1..Len(prefixes) -> Range(prefixes)] :
        /\ Range(q) = Range(prefixes)
        /\ \A i \in 1..Len(q), j \in 1..Len(q) :
               i < j => Len(q[i]) >= Len(q[j])}

\* Variant of NormalizeRoute: the last matching prefix wins.
NormalizeRoute_LastMatch(routes, path) ==
    LET matching == {i \in 1..Len(routes) :
                        \/ HasPrefix(path, routes[i] \o <<"/">>)
                        \/ path = routes[i]}
    IN IF matching = {} THEN path
       ELSE routes[CHOOSE i \in matching : \A j \in matching : i >= j]

\* TrafficRecorder.NormalizeRoute, with routes = tr.routes: the first
\* prefix that matches, or the path itself.
NormalizeRoute(routes, path) ==
    LET matching == {i \in 1..Len(routes) :
                        \/ HasPrefix(path, routes[i] \o <<"/">>)
                        \/ path = routes[i]}
    IN IF matching = {} THEN path
       ELSE routes[CHOOSE i \in matching : \A j \in matching : i <= j]

\* A call of NormalizeRoute.
Normalize(path) ==
    /\ lastNorm' = [path |-> path, route |-> NormalizeRoute(trRoutes, path)]
    /\ UNCHANGED <<declared, trRoutes, queued, trPc, lastEvent>>

\* Paths of the requests the recorder serves, and the statuses the inner
\* handler writes (0: it wrote none).
RequestPaths == {<<"/", "a", "/", "b">>, <<"/", "b">>}
InnerStatuses == {0, 200, 500}
Handlers == 1..NumHandlers

\* Middleware, up to next.ServeHTTP: the request enters the inner handler.
Enter(h) ==
    /\ trPc[h] = "idle"
    /\ trPc' = [trPc EXCEPT ![h] = "inner"]
    /\ UNCHANGED <<declared, trRoutes, queued, lastEvent, lastNorm>>

\* Variant of TrySend: a plain channel send, possible only with room.
TrySend_Blocking(h, path, status) ==
    /\ trPc[h] = "inner"
    /\ queued < ChannelCapacity
    /\ queued' = queued + 1
    /\ lastEvent' = [Route |-> NormalizeRoute(trRoutes, path),
                     Status |-> IF status = 0 THEN StatusOK ELSE status,
                     response |-> status, dropped |-> FALSE]
    /\ trPc' = [trPc EXCEPT ![h] = "idle"]
    /\ UNCHANGED <<declared, trRoutes, lastNorm>>

\* Middleware, after next.ServeHTTP returned: the event is built and
\* offered to the channel by a select with a default branch; the handler
\* returns.  `response` is the status the inner handler wrote to the
\* client.
TrySend(h, path, status) ==
    /\ trPc[h] = "inner"
    /\ queued' = IF queued < ChannelCapacity THEN queued + 1 ELSE queued
    /\ lastEvent' = [Route |-> NormalizeRoute(trRoutes, path),
                     Status |-> IF status = 0 THEN StatusOK ELSE status,
                     response |-> status,
                     dropped |-> ~(queued < ChannelCapacity)]
    /\ trPc' = [trPc EXCEPT ![h] = "idle"]
    /\ UNCHANGED <<declared, trRoutes, lastNorm>>

\* The background worker takes one event off the channel (and records it:
\* see Record).
Drain ==
    /\ queued > 0
    /\ queued' = queued - 1
    /\ UNCHANGED <<declared, trRoutes, trPc, lastEvent, lastNorm>>

NoEvent == [Route |-> <<>>, Status |-> 0, response |-> 0, dropped |-> FALSE]
NoNorm == [path |-> <<>>, route |-> <<>>]

\* NewTrafficRecorder, for the prefixes declared.
RecInit ==
    /\ declared \in DeclaredLists
    /\ trRoutes \in SortedLongestFirst(declared)
    /\ queued = 0
    /\ trPc = [h \in Handlers |-> "idle"]
    /\ lastEvent = NoEvent
    /\ lastNorm = NoNorm

\* The state of this part when a specification does not exercise it.
RecIdle ==
    /\ RecInit
    /\ declared = <<>>

\* -------------------------------------------------------------- analyzer
\* The statistics are exact fractions [n, d].  Request rates are whole
\* requests, error rates multiples of 1/ErrScale, latencies whole Duration
\* units (the division by time.Millisecond scales a mean, a deviation and
\* the current value alike).  A standard deviation is kept as its square.
ConfiguredWindows == {0, 2 * SecondsPerMinute}
ConfiguredThresholds == {0, 1}
TickTimes == {180, 240, AnomalyRetention + 300}

\* NewAnalyzer: the window and the z-score threshold in force.
NewAnalyzer(cfgWindow, cfgThreshold) ==
    [Window |-> IF cfgWindow <= 0 THEN DefaultWindow ELSE cfgWindow,
     ZScoreThreshold |-> IF cfgThreshold <= 0 THEN DefaultZScoreThreshold
                         ELSE cfgThreshold]

\* Bucket.ErrorRate, in 1/ErrScale
ErrorRate(b) ==
    IF b.RequestCount = 0 THEN 0
    ELSE (b.ErrorCount * ErrScale) \div b.RequestCount

RECURSIVE SumOf(_)
SumOf(values) ==
    IF values = <<>> THEN 0 ELSE Head(values) + SumOf(Tail(values))

\* mean(values)
mean(values) ==
    IF Len(values) = 0 THEN RatZero ELSE Rat(SumOf(values), Len(values))

\* stddev(values), squared: sumSquares / len(values)
stddev(values) ==
    IF Len(values) < 2 THEN RatZero
    ELSE LET m == mean(values)
             squares == [i \in 1..Len(values) |->
                            (values[i] * m.d - m.n) * (values[i] * m.d - m.n)]
         IN Rat(SumOf(squares), m.d * m.d * Len(values))

\* The three series of analyzeRoutes and the values of the current bucket.
rates(buckets) == [i \in 1..Len(buckets) |-> buckets[i].RequestCount]
errorRates(buckets) == [i \in 1..Len(buckets) |-> ErrorRate(buckets[i])]
latencies(buckets) == [i \in 1..Len(buckets) |-> AvgLatency(buckets[i])]

\* &RouteBaseline{...} (the p99 latency is left out)
RouteBaseline(route, buckets) ==
    [Route |-> route,
     MeanRate |-> mean(rates(buckets)),
     StdDevRate |-> stddev(rates(buckets)),
     MeanErrorRate |-> mean(errorRates(buckets)),
     StdDevError |-> stddev(errorRates(buckets)),
     MeanLatencyMs |-> mean(latencies(buckets)),
     StdDevLatency |-> stddev(latencies(buckets)),
     SampleSize |-> Len(buckets)]

\* &BackendBaseline{...}
BackendBaseline(backend, buckets) ==
    [Backend |-> backend,
     MeanLatencyMs |-> mean(latencies(buckets)),
     MeanErrorRate |-> mean(errorRates(buckets)),
     StdDevError |-> stddev(errorRates(buckets)),
     SampleSize |-> Len(buckets)]

\* zScore > a.config.ZScoreThreshold, for zScore = (current - m) / sqrt(sd)
\* with sd > 0: the difference is positive and its square exceeds
\* threshold^2 * sd.
ZScoreAbove(current, m, sd) ==
    LET diff == current * m.d - m.n IN
    /\ diff > 0
    /\ diff * diff * sd.d > zThreshold * zThreshold * sd.n * m.d * m.d

\* Variant of checkAnomaly: a z-score equal to the threshold is anomalous.
checkAnomaly_AtThreshold(st, route, metric, current, m, sd, T) ==
    LET diff == current * m.d - m.n IN
    IF sd = RatZero \/ m = RatZero THEN st
    ELSE IF /\ diff > 0
            /\ diff * diff * sd.d >= zThreshold * zThreshold * sd.n * m.d * m.d
         THEN [st EXCEPT
                  !.anomalies = Append(@, [Route |-> route, Metric |-> metric,
                                           Timestamp |-> T]),
                  !.channel = IF @ < AnomalyCapacity THEN @ + 1 ELSE @]
         ELSE st

\* Analyzer.checkAnomaly at time T: the anomaly is appended to a.anomalies
\* and sent to AnomalyChannel if the channel has room (select with default).
checkAnomaly(st, route, metric, current, m, sd, T) ==
    IF sd = RatZero \/ m = RatZero THEN st
    ELSE IF ZScoreAbove(current, m, sd)
         THEN [st EXCEPT
                  !.anomalies = Append(@, [Route |-> route, Metric |-> metric,
                                           Timestamp |-> T]),
                  !.channel = IF @ < AnomalyCapacity THEN @ + 1 ELSE @]
         ELSE st

\* Variant of analyzeRoute: a route is skipped only without buckets.
analyzeRoute_OneBucket(st, route, buckets, T) ==
    IF Len(buckets) < 1 THEN st
    ELSE LET baseline == RouteBaseline(route, buckets)
             current == buckets[Len(buckets)]
             stored == [st EXCEPT !.baselines = (route :> baseline) @@ @]
             rate == checkAnomaly(stored, route, "request_rate",
                                  current.RequestCount, baseline.MeanRate,
                                  baseline.StdDevRate, T)
             error == checkAnomaly(rate, route, "error_rate",
                                   ErrorRate(current), baseline.MeanErrorRate,
                                   baseline.StdDevError, T)
         IN checkAnomaly(error, route, "latency", AvgLatency(current),
                         baseline.MeanLatencyMs, baseline.StdDevLatency, T)

\* The body of the loop of analyzeRoutes for one route.
analyzeRoute(st, route, buckets, T) ==
    IF Len(buckets) < 2 THEN st
    ELSE LET baseline == RouteBaseline(route, buckets)
             current == buckets[Len(buckets)]
             stored == [st EXCEPT !.baselines = (route :> baseline) @@ @]
             rate == checkAnomaly(stored, route, "request_rate",
                                  current.RequestCount, baseline.MeanRate,
                                  baseline.StdDevRate, T)
             error == checkAnomaly(rate, route, "error_rate",
                                   ErrorRate(current), baseline.MeanErrorRate,
                                   baseline.StdDevError, T)
         IN checkAnomaly(error, route, "latency", AvgLatency(current),
                         baseline.MeanLatencyMs, baseline.StdDevLatency, T)

\* The orders in which a range over a map can visit its keys.
Orders(keys) == {q \in [1..Cardinality(keys) -> keys] : Range(q) = keys}

\* analyzeRoutes under a.mu, visiting the routes in the given order.
RECURSIVE analyzeRoutes(_, _, _, _)
analyzeRoutes(st, order, allBuckets, T) ==
    IF order = <<>> THEN st
    ELSE analyzeRoutes(analyzeRoute(st, Head(order), allBuckets[Head(order)],
                                    T),
                       Tail(order), allBuckets, T)

\* analyzeBackends under a.mu: the backend baselines afterwards.
analyzeBackends(allBuckets) ==
    LET renewed == {backend \in DOMAIN allBuckets :
                        ~(Len(allBuckets[backend]) < 2)}
    IN [backend \in renewed |->
            BackendBaseline(backend, allBuckets[backend])]
       @@ anBackendBaselines

\* pruneAnomalies with time.Now() = T
pruneAnomalies(T) ==
    LET cutoff == T - AnomalyRetention
        Kept(anom) == ~(anom.Timestamp < cutoff)
    IN SelectSeq(anomalies, Kept)

\* analyze(), first step: time.Now() = T, then analyzeRoutes(from, now).
\* GetAllBuckets is one read of the store; the results are published in
\* one critical section of a.mu.
TickRoutes(T) ==
    /\ anPc.at = "idle"
    /\ ticks < MaxAnalyzerTicks
    /\ T >= anPc.now
    /\ \E order \in Orders(DOMAIN GetAllBuckets(T - window, T)) :
           LET after == analyzeRoutes([baselines |-> anRouteBaselines,
                                       anomalies |-> anomalies,
                                       channel |-> anChannel],
                                      order, GetAllBuckets(T - window, T), T)
           IN /\ anRouteBaselines' = after.baselines
              /\ anomalies' = after.anomalies
              /\ anChannel' = after.channel
    /\ anPc' = [at |-> "backends", now |-> T]
    /\ ticks' = ticks + 1
    /\ routeTick' = ticks + 1
    /\ UNCHANGED <<window, zThreshold, anBackendBaselines, backendTick,
                   reader>>

\* analyze(), second step: analyzeBackends(from, now), a second critical
\* section of a.mu.
TickBackends ==
    /\ anPc.at = "backends"
    /\ anBackendBaselines' =
           analyzeBackends(GetBackendBuckets(anPc.now - window, anPc.now))
    /\ backendTick' = ticks
    /\ anPc' = [anPc EXCEPT !.at = "prune"]
    /\ UNCHANGED <<window, zThreshold, anRouteBaselines, anomalies, anChannel,
                   ticks, routeTick, reader>>

\* analyze(), third step: pruneAnomalies(), a third critical section.
TickPrune ==
    /\ anPc.at = "prune"
    /\ anomalies' = pruneAnomalies(anPc.now)
    /\ anPc' = [anPc EXCEPT !.at = "idle"]
    /\ UNCHANGED <<window, zThreshold, anRouteBaselines, anBackendBaselines,
                   anChannel, ticks, routeTick, backendTick, reader>>

\* A reader of both kinds of baselines: GetAllRouteBaselines, then
\* GetAllBackendBaselines, each under a.mu.RLock.
ReadRoutes ==
    /\ reader.at = "start"
    /\ reader' = [reader EXCEPT !.at = "backends", !.routes = routeTick]
    /\ UNCHANGED <<window, zThreshold, anRouteBaselines, anBackendBaselines,
                   anomalies, anChannel, anPc, ticks, routeTick, backendTick>>

ReadBackends ==
    /\ reader.at = "backends"
    /\ reader' = [reader EXCEPT !.at = "done", !.backends = backendTick]
    /\ UNCHANGED <<window, zThreshold, anRouteBaselines, anBackendBaselines,
                   anomalies, anChannel, anPc, ticks, routeTick, backendTick>>

\* NewAnalyzer; nothing reads AnomalyChannel, which may have filled up.
AnInit ==
    /\ \E w \in ConfiguredWindows, t \in ConfiguredThresholds :
           /\ window = NewAnalyzer(w, t).Window
           /\ zThreshold = NewAnalyzer(w, t).ZScoreThreshold
    /\ anRouteBaselines = EmptyMap
    /\ anBackendBaselines = EmptyMap
    /\ anomalies = <<>>
    /\ anChannel \in {0, AnomalyCapacity}
    /\ anPc = [at |-> "idle", now |-> 0]
    /\ ticks = 0
    /\ routeTick = 0
    /\ backendTick = 0
    /\ reader = [at |-> "start", routes |-> 0, backends |-> 0]

AnIdle ==
    /\ AnInit
    /\ window = DefaultWindow
    /\ zThreshold = DefaultZScoreThreshold
    /\ anChannel = 0

\* ------------------------------------------------------ middleware chain
\* A handler is the sequence of its layers, outermost first; the innermost
\* layer is the handler given to Chain.
StageNames == {"ratelimit", "auth", "circuitbreaker"}
FinalHandler == "proxy"
StageLists ==
    UNION {{q \in [1..n -> StageNames] :
                \A i, j \in 1..n : q[i] = q[j] => i = j} : n \in 0..MaxStages}

\* Variant of ChainLoop: the middlewares are applied from the first on.
RECURSIVE ChainLoop_Forward(_, _, _)
ChainLoop_Forward(handler, middlewares, i) ==
    IF i < 1 THEN handler
    ELSE ChainLoop_Forward(
             <<middlewares[Len(middlewares) + 1 - i]>> \o handler,
             middlewares, i - 1)

\* The loop of Chain from index i down: handler = middlewares[i](handler).
RECURSIVE ChainLoop(_, _, _)
ChainLoop(handler, middlewares, i) ==
    IF i < 1 THEN handler
    ELSE ChainLoop(<<middlewares[i]>> \o handler, middlewares, i - 1)

\* Chain(handler, middlewares...)
Chain(handler, middlewares) ==
    ChainLoop(<<handler>>, middlewares, Len(middlewares))

\* The layer whose ServeHTTP is called next.
NextLayer == chHandler[Len(chStack) + 1]

\* A middleware runs its code before the inner call and calls its inner
\* handler.
StageEnter ==
    /\ chAt = "call"
    /\ NextLayer # FinalHandler
    /\ NextLayer \in chCalls
    /\ chTrace' = Append(chTrace, <<"enter", NextLayer>>)
    /\ chStack' = Append(chStack, NextLayer)
    /\ UNCHANGED <<chStages, chCalls, chHandler, chAt>>

\* A middleware runs its code and returns without calling its inner handler.
StageReject ==
    /\ chAt = "call"
    /\ NextLayer # FinalHandler
    /\ NextLayer \notin chCalls
    /\ chTrace' = Append(chTrace, <<"enter", NextLayer>>)
    /\ chAt' = "return"
    /\ UNCHANGED <<chStages, chCalls, chHandler, chStack>>

\* The handler given to Chain runs and returns.
HandlerRun ==
    /\ chAt = "call"
    /\ NextLayer = FinalHandler
    /\ chTrace' = Append(chTrace, <<"run", FinalHandler>>)
    /\ chAt' = "return"
    /\ UNCHANGED <<chStages, chCalls, chHandler, chStack>>

\* The inner call of the innermost waiting middleware returns and the code
\* after it runs.
StageExit ==
    /\ chAt = "return"
    /\ chStack # <<>>
    /\ chTrace' = Append(chTrace, <<"exit", chStack[Len(chStack)]>>)
    /\ chStack' = SubSeq(chStack, 1, Len(chStack) - 1)
    /\ UNCHANGED <<chStages, chCalls, chHandler, chAt>>

\* A request arrives at the handler Chain returned.
ChainInit ==
    /\ chStages \in StageLists
    /\ chCalls \in SUBSET StageNames
    /\ chHandler = Chain(FinalHandler, chStages)
    /\ chStack = <<>>
    /\ chAt = "call"
    /\ chTrace = <<>>

ChainIdle ==
    /\ ChainInit
    /\ chStages = <<>>
    /\ chCalls = {}

P4Idle == StoreIdle /\ RecIdle /\ AnIdle /\ ChainIdle

\* ======================================================================
\* Part 5: the request pipeline of the gateway
\* ======================================================================
\* Strings whose content matters (request IDs) are sequences of
\* one-character strings.
HexDigits == <<"0", "1", "2", "3", "4", "5", "6", "7", "8", "9",
               "a", "b", "c", "d", "e", "f">>

\* fmt.Sprintf("%x", b) of a byte slice: two digits per byte.
RECURSIVE Hex(_)
Hex(b) ==
    IF b = <<>> THEN <<>>
    ELSE <<HexDigits[(Head(b) \div 16) + 1], HexDigits[(Head(b) % 16) + 1]>>
             \o Hex(Tail(b))

\* What rand.Read may leave in the four bytes.
RandomBytes == {<<0, 0, 0, 0>>, <<222, 173, 190, 239>>}

\* generateID, for the bytes rand.Read produced.
generateID(b) == Hex(b)

\* context.Context as far as requestIDKey goes.
EmptyContext == [present |-> FALSE, requestID |-> <<>>]
WithRequestID(id) == [present |-> TRUE, requestID |-> id]

\* Variant of GetRequestID: the value is cut to its first character.
GetRequestID_Cut(ctx) ==
    IF ctx.present /\ ctx.requestID # <<>> THEN <<Head(ctx.requestID)>>
    ELSE <<>>

\* GetRequestID
GetRequestID(ctx) == IF ctx.present THEN ctx.requestID ELSE <<>>

\* main(): the middlewares handed to Chain, with and without analytics.
Middlewares(analytics) ==
    <<"requestid", "capture", "metrics">>
        \o (IF analytics THEN <<"traffic">> ELSE <<>>)
        \o <<"logging", "ratelimit", "auth", "circuitbreaker">>

\* &responseWriter{statusCode: http.StatusOK} and
\* &responseCapture{statusCode: 0}, made by `layer`.
NewResponseWriter(layer) ==
    [layer |-> layer, kind |-> "responseWriter", statusCode |-> StatusOK,
     bytesWritten |-> 0]
NewResponseCapture(layer) ==
    [layer |-> layer, kind |-> "responseCapture", statusCode |-> 0,
     bytesWritten |-> 0]

\* The server's own ResponseWriter: the first WriteHeader sends the status
\* line and the header map as it is then, later ones are ignored; a Write
\* before any WriteHeader sends 200 first.  status 0: nothing sent yet.
NothingSent == [status |-> 0, bytes |-> 0, requestID |-> <<>>]
ServerWriteHeader(sent, header, code) ==
    IF sent.status # 0 THEN sent
    ELSE [sent EXCEPT !.status = code, !.requestID = header]
ServerWrite(sent, header, n) ==
    [ServerWriteHeader(sent, header, StatusOK) EXCEPT !.bytes = @ + n]

\* A call on writer i of `st.writers` (0: the server's writer) changes the
\* wrappers from i outwards and what is sent: st = [writers, sent, header].
RECURSIVE WriteHeaderAt(_, _, _), WriteAt(_, _, _)

\* responseWriter.WriteHeader
ResponseWriterWriteHeader(st, i, code) ==
    WriteHeaderAt([st EXCEPT !.writers[i].statusCode = code], i - 1, code)

\* Variant of ResponseCaptureWriteHeader: every call is recorded and passed
\* on.
ResponseCaptureWriteHeader_Always(st, i, code) ==
    WriteHeaderAt([st EXCEPT !.writers[i].statusCode = code], i - 1, code)

\* responseCapture.WriteHeader
ResponseCaptureWriteHeader(st, i, code) ==
    IF st.writers[i].statusCode = 0
    THEN WriteHeaderAt([st EXCEPT !.writers[i].statusCode = code], i - 1,
                       code)
    ELSE st

\* responseCapture.Write, for a write of n bytes that the inner writer
\* takes whole.
ResponseCaptureWrite(st, i, n) ==
    LET s1 == IF st.writers[i].statusCode = 0
              THEN ResponseCaptureWriteHeader(st, i, StatusOK) ELSE st
    IN [WriteAt(s1, i - 1, n) EXCEPT !.writers[i].bytesWritten = @ + n]

WriteHeaderAt(st, i, code) ==
    IF i = 0
    THEN [st EXCEPT !.sent = ServerWriteHeader(@, st.header, code)]
    ELSE IF st.writers[i].kind = "responseWriter"
         THEN ResponseWriterWriteHeader(st, i, code)
         ELSE ResponseCaptureWriteHeader(st, i, code)

\* responseWriter has no Write of its own: the embedded writer's is called.
WriteAt(st, i, n) ==
    IF i = 0
    THEN [st EXCEPT !.sent = ServerWrite(@, st.header, n)]
    ELSE IF st.writers[i].kind = "responseWriter"
         THEN WriteAt(st, i - 1, n)
         ELSE ResponseCaptureWrite(st, i, n)

\* The writer a layer holds is the innermost wrapper made so far.
GwState == [writers |-> gwWriters, sent |-> gwSent, header |-> gwHeader]
GwTop == Len(gwWriters)

\* http.Error(w, msg, code): WriteHeader(code), then the message and a
\* newline, n bytes in all.
HttpError(st, code, n) ==
    WriteAt(WriteHeaderAt(st, Len(st.writers), code), Len(st.writers), n)

\* Auth: the configured API keys and the tokens jwt.Parse accepts.
ApiKeys == {"k1"}
ValidTokens == {"t1"}
NoAuthorization == [prefix |-> "", token |-> ""]
\* Requests: X-Request-ID, X-API-Key and Authorization headers, client and
\* path.
GwRequests ==
    {[requestID |-> id, apiKey |-> c[1], authorization |-> c[2],
      ip |-> "ip1", path |-> <<"/", "a", "/", "b">>] :
        id \in {<<>>, <<"r", "7">>},
        c \in {<<"k1", NoAuthorization>>, <<"k2", NoAuthorization>>,
               <<"", NoAuthorization>>,
               <<"", [prefix |-> "Basic ", token |-> "t1"]>>,
               <<"", [prefix |-> "Bearer ", token |-> "t1"]>>,
               <<"", [prefix |-> "Bearer ", token |-> "t2"]>>}}

\* Auth.Middleware's decision: whether next is called, and otherwise the
\* length of the 401 body ("Invalid API Key", "Unauthorized", "Invalid
\* Authorization Header", "Invalid Token", each with a newline).
Authorize(req) ==
    IF req.apiKey # ""
    THEN IF req.apiKey \in ApiKeys THEN [ok |-> TRUE, body |-> 0]
         ELSE [ok |-> FALSE, body |-> 16]
    ELSE IF req.authorization.prefix = "" /\ req.authorization.token = ""
         THEN [ok |-> FALSE, body |-> 13]
    ELSE IF req.authorization.prefix # "Bearer "
         THEN [ok |-> FALSE, body |-> 29]
    ELSE IF req.authorization.token \notin ValidTokens
         THEN [ok |-> FALSE, body |-> 14]
    ELSE [ok |-> TRUE, body |-> 0]

\* The layer whose ServeHTTP is called next, and the one in control.
GwNextLayer == gwHandler[Len(gwFrames) + 1]
GwFrame == gwFrames[Len(gwFrames)]

\* A layer is entered: its frame holds the context of the request it got
\* and the index of the wrapper it made (0: none).
Push(layer, wrapper) ==
    gwFrames' = Append(gwFrames, [layer |-> layer, ctx |-> gwCtx,
                                  wrapper |-> wrapper])

\* The calls `st1` made on the innermost writer take effect and are noted.
Written(st, ops) ==
    /\ gwWriters' = st.writers
    /\ gwSent' = st.sent
    /\ gwOps' = gwOps \o ops

\* A layer answers by http.Error and returns without calling next.
Reject(code, n) ==
    /\ Written(HttpError(GwState, code, n),
               <<[op |-> "WriteHeader", arg |-> code],
                 [op |-> "Write", arg |-> n]>>)
    /\ gwAt' = "return"
    /\ UNCHANGED <<gwFrames, gwHeader, gwCtx>>

\* A layer wraps the writer and calls next.
Wrap(layer, wrapper) ==
    /\ gwWriters' = Append(gwWriters, wrapper)
    /\ Push(layer, Len(gwWriters) + 1)
    /\ UNCHANGED <<gwAt, gwHeader, gwSent, gwCtx, gwOps>>

\* A layer calls next with the writer and request it got.
Pass(layer) ==
    /\ Push(layer, 0)
    /\ UNCHANGED <<gwAt, gwWriters, gwHeader, gwSent, gwCtx, gwOps>>

\* RequestID, up to next.ServeHTTP: `b` is what rand.Read gives.
CallRequestID(b) ==
    LET requestID == IF gwReq.requestID = <<>> THEN generateID(b)
                     ELSE gwReq.requestID
    IN /\ gwHeader' = <<requestID>>
       /\ Push("requestid", 0)
       /\ gwCtx' = WithRequestID(requestID)
       /\ UNCHANGED <<gwAt, gwWriters, gwSent, gwOps>>
       /\ UNCHANGED <<cbOwn, sufficientData, now, rlVars, recVars>>

\* Capture, Metrics and Logging, up to next.ServeHTTP.
CallPlain(layer) ==
    /\ Wrap(layer, IF layer = "capture" THEN NewResponseCapture(layer)
                   ELSE NewResponseWriter(layer))
    /\ UNCHANGED <<cbOwn, sufficientData, now, rlVars, recVars>>

\* TrafficRecorder.Middleware, up to next.ServeHTTP.
CallTraffic ==
    /\ Wrap("traffic", NewResponseCapture("traffic"))
    /\ Enter(1)
    /\ UNCHANGED <<cbOwn, sufficientData, now, rlVars>>

\* RateLimiter.Middleware.
CallRateLimit ==
    /\ StaticMiddleware(gwReq.ip)
    /\ IF Decide(static, gwReq.ip).ok THEN Pass("ratelimit")
       ELSE Reject(StatusTooManyRequests, 18)
    /\ UNCHANGED <<routeLimiters, lastRebalance, arlConfig, routeBaselines>>
    /\ UNCHANGED <<cbOwn, sufficientData, now, recVars>>

\* Variant of CallAuth: the return after http.Error is missing.
CallAuth_NoReturn ==
    /\ LET a == Authorize(gwReq) IN
       IF a.ok THEN Pass("auth")
       ELSE /\ Written(HttpError(GwState, StatusUnauthorized, a.body),
                       <<[op |-> "WriteHeader", arg |-> StatusUnauthorized],
                         [op |-> "Write", arg |-> a.body]>>)
            /\ Push("auth", 0)
            /\ UNCHANGED <<gwAt, gwHeader, gwCtx>>
    /\ UNCHANGED <<cbOwn, sufficientData, now, rlVars, recVars>>

\* Auth.Middleware.
CallAuth ==
    /\ LET a == Authorize(gwReq) IN
       IF a.ok THEN Pass("auth") ELSE Reject(StatusUnauthorized, a.body)
    /\ UNCHANGED <<cbOwn, sufficientData, now, rlVars, recVars>>

\* CircuitBreaker.Middleware, up to next.ServeHTTP (lines 91-113).
CallCircuitBreaker ==
    /\ LET a == Admission IN
       /\ state' = a.state
       /\ IF a.pass
          THEN Wrap("circuitbreaker", NewResponseWriter("circuitbreaker"))
          ELSE Reject(StatusServiceUnavailable, 20)
    /\ UNCHANGED <<failureCount, totalCount, lastFailure, cbConfig,
                   backendBaselines, inflight, last, failBudget, hist>>
    /\ UNCHANGED <<sufficientData, now, rlVars, recVars>>

\* The next middleware runs up to its call of next, or answers itself.
GwCall ==
    /\ gwAt = "call"
    /\ GwNextLayer # "proxy"
    /\ CASE GwNextLayer = "requestid" -> \E b \in RandomBytes : CallRequestID(b)
         [] GwNextLayer \in {"capture", "metrics", "logging"} ->
                CallPlain(GwNextLayer)
         [] GwNextLayer = "traffic" -> CallTraffic
         [] GwNextLayer = "ratelimit" -> CallRateLimit
         [] GwNextLayer = "auth" -> CallAuth
         [] GwNextLayer = "circuitbreaker" -> CallCircuitBreaker
    /\ UNCHANGED <<gwHandler, gwReq, gwLogs, gwSeen, gwRead>>

\* The handler inside the chain is running.
InHandler == gwAt = "call" /\ GwNextLayer = "proxy"
GwFrameRest == <<cbOwn, sufficientData, now, rlVars, recVars, gwHandler,
                 gwReq, gwFrames, gwAt, gwCtx, gwLogs, gwSeen, gwRead>>

\* It calls w.WriteHeader(code).
GwWriteHeader(code) ==
    /\ InHandler
    /\ Len(gwOps) < MaxWrites
    /\ Written(WriteHeaderAt(GwState, GwTop, code),
               <<[op |-> "WriteHeader", arg |-> code]>>)
    /\ UNCHANGED <<gwHeader, GwFrameRest>>

\* It calls w.Write with n bytes.
GwWrite(n) ==
    /\ InHandler
    /\ Len(gwOps) < MaxWrites
    /\ Written(WriteAt(GwState, GwTop, n), <<[op |-> "Write", arg |-> n]>>)
    /\ UNCHANGED <<gwHeader, GwFrameRest>>

\* The reverse proxy copies the backend's X-Request-ID response header
\* into the header map (Header.Add), before it writes the status.
GwCopyHeader(id) ==
    /\ InHandler
    /\ gwOps = <<>>
    /\ Len(gwHeader) < 2
    /\ gwHeader' = Append(gwHeader, id)
    /\ UNCHANGED <<gwWriters, gwSent, gwOps, GwFrameRest>>

\* It returns.
GwHandlerReturn ==
    /\ InHandler
    /\ gwAt' = "return"
    /\ UNCHANGED <<cbOwn, sufficientData, now, rlVars, recVars, gwHandler,
                   gwReq, gwFrames, gwWriters, gwHeader, gwSent, gwCtx,
                   gwLogs, gwOps, gwSeen, gwRead>>

\* The status a layer reads from its wrapper once next.ServeHTTP is back;
\* Capture and the traffic recorder turn a 0 into 200.
FinalStatus(wrapper) ==
    IF wrapper.kind = "responseCapture" /\ wrapper.statusCode = 0
    THEN StatusOK ELSE wrapper.statusCode

\* The code of a layer after next.ServeHTTP.
ReturnRequestID ==
    UNCHANGED <<cbOwn, sufficientData, now, rlVars, recVars, gwWriters,
                gwLogs, gwSeen, gwRead>>

\* Capture: the log is built and offered to the channel.
ReturnCapture ==
    LET w == GwFrame.wrapper IN
    /\ gwWriters' = [gwWriters EXCEPT ![w].statusCode =
                                          FinalStatus(gwWriters[w])]
    /\ gwSeen' = ("capture" :> FinalStatus(gwWriters[w])) @@ gwSeen
    /\ gwRead' = ("capture" :> GetRequestID(GwFrame.ctx)) @@ gwRead
    /\ gwLogs' = IF gwLogs < LogChannelCapacity THEN gwLogs + 1 ELSE gwLogs
    /\ UNCHANGED <<cbOwn, sufficientData, now, rlVars, recVars>>

\* Metrics: the status is the label of the counter.
ReturnMetrics ==
    /\ gwSeen' = ("metrics" :> FinalStatus(gwWriters[GwFrame.wrapper]))
                     @@ gwSeen
    /\ UNCHANGED <<cbOwn, sufficientData, now, rlVars, recVars, gwWriters,
                   gwLogs, gwRead>>

\* TrafficRecorder.Middleware: the event is built and offered.
ReturnTraffic ==
    LET w == GwFrame.wrapper IN
    /\ gwWriters' = [gwWriters EXCEPT ![w].statusCode =
                                          FinalStatus(gwWriters[w])]
    /\ gwSeen' = ("traffic" :> FinalStatus(gwWriters[w])) @@ gwSeen
    /\ TrySend(1, gwReq.path, gwWriters[w].statusCode)
    /\ UNCHANGED <<cbOwn, sufficientData, now, rlVars, gwLogs, gwRead>>

\* Logging: the entry is encoded.
ReturnLogging ==
    /\ gwSeen' = ("logging" :> FinalStatus(gwWriters[GwFrame.wrapper]))
                     @@ gwSeen
    /\ gwRead' = ("logging" :> GetRequestID(GwFrame.ctx)) @@ gwRead
    /\ UNCHANGED <<cbOwn, sufficientData, now, rlVars, recVars, gwWriters,
                   gwLogs>>

\* RateLimiter and Auth return when next has returned.
ReturnGate ==
    UNCHANGED <<cbOwn, sufficientData, now, rlVars, recVars, gwWriters,
                gwLogs, gwSeen, gwRead>>

\* CircuitBreaker.Middleware, lines 115-138; the proxy sets no
\* X-Proxy-Backend header.
ReturnCircuitBreaker ==
    LET status == FinalStatus(gwWriters[GwFrame.wrapper])
        o == Outcome(status, "")
    IN /\ state' = o.state
       /\ failureCount' = o.failureCount
       /\ totalCount' = o.totalCount
       /\ lastFailure' = o.lastFailure
       /\ gwSeen' = ("circuitbreaker" :> status) @@ gwSeen
       /\ UNCHANGED <<cbConfig, backendBaselines, inflight, last,
                      failBudget, hist>>
       /\ UNCHANGED <<sufficientData, now, rlVars, recVars, gwWriters,
                      gwLogs, gwRead>>

\* The layer in control finishes and returns to its caller; when the
\* outermost has returned the server sends what is still unsent.
GwReturn ==
    /\ gwAt = "return"
    /\ gwFrames # <<>>
    /\ CASE GwFrame.layer = "requestid" -> ReturnRequestID
         [] GwFrame.layer = "capture" -> ReturnCapture
         [] GwFrame.layer = "metrics" -> ReturnMetrics
         [] GwFrame.layer = "traffic" -> ReturnTraffic
         [] GwFrame.layer = "logging" -> ReturnLogging
         [] GwFrame.layer \in {"ratelimit", "auth"} -> ReturnGate
         [] GwFrame.layer = "circuitbreaker" -> ReturnCircuitBreaker
    /\ gwFrames' = SubSeq(gwFrames, 1, Len(gwFrames) - 1)
    /\ IF Len(gwFrames) = 1
       THEN /\ gwAt' = "done"
            /\ gwSent' = ServerWriteHeader(gwSent, gwHeader, StatusOK)
       ELSE UNCHANGED <<gwAt, gwSent>>
    /\ UNCHANGED <<gwHandler, gwReq, gwHeader, gwCtx, gwOps>>

\* No request yet: the handler is built and the server has a request for
\* it.
GwInit ==
    /\ gwHandler \in {Chain("proxy", Middlewares(a)) : a \in BOOLEAN}
    /\ gwReq \in GwRequests
    /\ gwFrames = <<>>
    /\ gwAt = "call"
    /\ gwWriters = <<>>
    /\ gwHeader = <<>>
    /\ gwSent = NothingSent
    /\ gwCtx = EmptyContext
    /\ gwLogs = 0
    /\ gwOps = <<>>
    /\ gwSeen = <<>>
    /\ gwRead = <<>>

\* The state of this part when a specification does not exercise it.
GwIdle ==
    /\ gwHandler = <<>>
    /\ gwReq = [requestID |-> <<>>, apiKey |-> "",
                authorization |-> NoAuthorization, ip |-> "ip1",
                path |-> <<>>]
    /\ gwFrames = <<>>
    /\ gwAt = "done"
    /\ gwWriters = <<>>
    /\ gwHeader = <<>>
    /\ gwSent = NothingSent
    /\ gwCtx = EmptyContext
    /\ gwLogs = 0
    /\ gwOps = <<>>
    /\ gwSeen = <<>>
    /\ gwRead = <<>>

\* ------------------------------------------- health registry, lock by lock
\* The goroutines: the background prober (StartBackground), an API handler
\* that calls AddBackend, a request that calls IsHealthy.
Prober == "prober"
Adder == "adder"
Reader == "reader"
HlURLs == {"u1", "u2", "u3"}
NoRange == [start |-> {}, seen |-> {}, url |-> "", healthy |-> FALSE]
MutexFree == [writer |-> "", readers |-> {}]

\* How goroutine p holds hc.mu.
HeldBy(p) ==
    IF hlMu.writer = p THEN "exclusive"
    ELSE IF p \in hlMu.readers THEN "shared" ELSE "none"

\* sync.RWMutex: Lock waits for the writer and the readers to leave, RLock
\* for the writer.
CanLock == hlMu.writer = "" /\ hlMu.readers = {}
CanRLock == hlMu.writer = ""

\* An access of goroutine p to the map is noted with the lock p holds.
Access(p, kinds) ==
    hlAccess' = hlAccess \cup
                    {[proc |-> p, kind |-> k, lock |-> HeldBy(p)] : k \in kinds}

\* RunChecks, line 60: `for url := range hc.backends` begins; hc.mu is not
\* taken.
RunChecksStart ==
    /\ ~hlCrashed
    /\ hlPc[Prober] = "idle"
    /\ hlRange' = [NoRange EXCEPT !.start = DOMAIN hlBackends]
    /\ hlPc' = [hlPc EXCEPT ![Prober] = "range"]
    /\ Access(Prober, {"iterate"})
    /\ UNCHANGED <<hlBackends, hlMu, hlArg, hlCrashed>>

\* RunChecks, line 60: the range statement goes to the next key, or ends;
\* hc.mu is not held.  A key added since the loop began may be produced or
\* left out; when another goroutine is writing the map at this moment the
\* runtime may also stop the process ("concurrent map iteration and map
\* write").
RunChecksRange ==
    /\ ~hlCrashed
    /\ hlPc[Prober] = "range"
    /\ Access(Prober, {"iterate"})
    /\ \/ /\ hlMu.writer \notin {"", Prober}
          /\ hlCrashed' = TRUE
          /\ UNCHANGED <<hlPc, hlRange>>
       \/ /\ hlRange.start \subseteq hlRange.seen
          /\ hlPc' = [hlPc EXCEPT ![Prober] = "idle"]
          /\ hlRange' = NoRange
          /\ UNCHANGED hlCrashed
       \/ \E url \in DOMAIN hlBackends \ hlRange.seen :
              /\ hlRange' = [hlRange EXCEPT !.url = url,
                                            !.seen = @ \cup {url}]
              /\ hlPc' = [hlPc EXCEPT ![Prober] = "probe"]
              /\ UNCHANGED hlCrashed
    /\ UNCHANGED <<hlBackends, hlMu, hlArg>>

\* RunChecks, line 61: checkBackend(url) answers.
RunChecksProbe(healthy) ==
    /\ ~hlCrashed
    /\ hlPc[Prober] = "probe"
    /\ hlRange' = [hlRange EXCEPT !.healthy = healthy]
    /\ hlPc' = [hlPc EXCEPT ![Prober] = "lock"]
    /\ UNCHANGED <<hlBackends, hlMu, hlArg, hlCrashed, hlAccess>>

\* RunChecks, line 63: hc.mu.Lock().
RunChecksLock ==
    /\ ~hlCrashed
    /\ hlPc[Prober] = "lock"
    /\ CanLock
    /\ hlMu' = [hlMu EXCEPT !.writer = Prober]
    /\ hlPc' = [hlPc EXCEPT ![Prober] = "update"]
    /\ UNCHANGED <<hlBackends, hlRange, hlArg, hlCrashed, hlAccess>>

\* RunChecks, lines 64-67: the entry is looked up and its status set;
\* hc.mu.Unlock().
RunChecksUpdate ==
    /\ ~hlCrashed
    /\ hlPc[Prober] = "update"
    /\ hlBackends' = [hlBackends EXCEPT ![hlRange.url] = hlRange.healthy]
    /\ Access(Prober, {"read"})
    /\ hlMu' = [hlMu EXCEPT !.writer = ""]
    /\ hlPc' = [hlPc EXCEPT ![Prober] = "range"]
    /\ UNCHANGED <<hlRange, hlArg, hlCrashed>>

\* AddBackend, line 93: hc.mu.Lock().
AddBackendLock(url) ==
    /\ ~hlCrashed
    /\ hlPc[Adder] = "idle"
    /\ CanLock
    /\ hlMu' = [hlMu EXCEPT !.writer = Adder]
    /\ hlArg' = [hlArg EXCEPT ![Adder] = url]
    /\ hlPc' = [hlPc EXCEPT ![Adder] = "insert"]
    /\ UNCHANGED <<hlBackends, hlRange, hlCrashed, hlAccess>>

\* AddBackend, lines 95-100: the URL is looked up and, when new, entered
\* as not healthy.
AddBackendInsert ==
    /\ ~hlCrashed
    /\ hlPc[Adder] = "insert"
    /\ IF hlArg[Adder] \in DOMAIN hlBackends
       THEN /\ UNCHANGED hlBackends
            /\ Access(Adder, {"read"})
       ELSE /\ hlBackends' = (hlArg[Adder] :> FALSE) @@ hlBackends
            /\ Access(Adder, {"read", "write"})
    /\ hlPc' = [hlPc EXCEPT ![Adder] = "unlock"]
    /\ UNCHANGED <<hlMu, hlRange, hlArg, hlCrashed>>

\* AddBackend returns: the deferred hc.mu.Unlock().
AddBackendUnlock ==
    /\ ~hlCrashed
    /\ hlPc[Adder] = "unlock"
    /\ hlMu' = [hlMu EXCEPT !.writer = ""]
    /\ hlPc' = [hlPc EXCEPT ![Adder] = "idle"]
    /\ UNCHANGED <<hlBackends, hlRange, hlArg, hlCrashed, hlAccess>>

\* IsHealthy, line 107: hc.mu.RLock().
IsHealthyRLock(url) ==
    /\ ~hlCrashed
    /\ hlPc[Reader] = "idle"
    /\ CanRLock
    /\ hlMu' = [hlMu EXCEPT !.readers = @ \cup {Reader}]
    /\ hlArg' = [hlArg EXCEPT ![Reader] = url]
    /\ hlPc' = [hlPc EXCEPT ![Reader] = "read"]
    /\ UNCHANGED <<hlBackends, hlRange, hlCrashed, hlAccess>>

\* IsHealthy, lines 109-112, and the deferred hc.mu.RUnlock().
IsHealthyRead ==
    /\ ~hlCrashed
    /\ hlPc[Reader] = "read"
    /\ Access(Reader, {"read"})
    /\ hlMu' = [hlMu EXCEPT !.readers = @ \ {Reader}]
    /\ hlPc' = [hlPc EXCEPT ![Reader] = "idle"]
    /\ UNCHANGED <<hlBackends, hlRange, hlArg, hlCrashed>>

\* NewHealthChecker, for the URLs configured.
HlInit ==
    /\ hlBackends = [url \in {"u1", "u2"} |-> TRUE]
    /\ hlMu = MutexFree
    /\ hlPc = [p \in {Prober, Adder, Reader} |-> "idle"]
    /\ hlRange = NoRange
    /\ hlArg = [p \in {Prober, Adder, Reader} |-> ""]
    /\ hlCrashed = FALSE
    /\ hlAccess = {}

\* The state of this part when a specification does not exercise it.
HlIdle ==
    /\ hlBackends = <<>>
    /\ hlMu = MutexFree
    /\ hlPc = [p \in {Prober, Adder, Reader} |-> "idle"]
    /\ hlRange = NoRange
    /\ hlArg = [p \in {Prober, Adder, Reader} |-> ""]
    /\ hlCrashed = FALSE
    /\ hlAccess = {}

\* ------------------------------------------------------------- log store
\* RequestLog{}: the zero value the slots of a new store hold.
ZeroLog == [ID |-> 0, Status |-> 0]
NoRecent == [called |-> FALSE, n |-> 0, result |-> <<>>]

\* NewLogStore(capacity)
NewLogStore(capacity) ==
    LET c == IF capacity <= 0 THEN DefaultLogCapacity ELSE capacity
    IN [logs |-> [i \in 0..(c - 1) |-> ZeroLog], size |-> c]

\* LogStore.Add: the fields after the call.
LogStoreAdd(log) ==
    [logs |-> [lsLogs EXCEPT ![lsIndex] = log],
     index |-> (lsIndex + 1) % lsSize,
     count |-> IF lsCount < lsSize THEN lsCount + 1 ELSE lsCount]

\* Variant of LogStoreRecent: the walk starts at index, not at index - 1.
LogStoreRecent_FromIndex(n) ==
    LET m == IF n > lsCount THEN lsCount ELSE n
        startIdx == lsIndex
    IN IF m <= 0 THEN <<>>
       ELSE [i \in 1..m |->
                LET idx == startIdx - (i - 1)
                IN lsLogs[IF idx < 0 THEN idx + lsSize ELSE idx]]

\* LogStore.Recent(n); result[i] of the code is element i + 1 here.
LogStoreRecent(n) ==
    LET m == IF n > lsCount THEN lsCount ELSE n
        startIdx == IF lsIndex - 1 < 0 THEN lsSize - 1 ELSE lsIndex - 1
    IN IF m <= 0 THEN <<>>
       ELSE [i \in 1..m |->
                LET idx == startIdx - (i - 1)
                IN lsLogs[IF idx < 0 THEN idx + lsSize ELSE idx]]

\* store.Add(log), for the next log: IDs count the logs made.
Add(status) ==
    /\ Len(lsAdded) < MaxAdds
    /\ LET log == [ID |-> Len(lsAdded) + 1, Status |-> status]
           after == LogStoreAdd(log)
       IN /\ lsLogs' = after.logs
          /\ lsIndex' = after.index
          /\ lsCount' = after.count
          /\ lsAdded' = Append(lsAdded, log)
    /\ lsRecent' = NoRecent
    /\ UNCHANGED lsSize

\* store.Recent(n)
Recent(n) ==
    /\ lsRecent' = [called |-> TRUE, n |-> n, result |-> LogStoreRecent(n)]
    /\ UNCHANGED <<lsLogs, lsSize, lsIndex, lsCount, lsAdded>>

LsInit ==
    /\ \E capacity \in 0..MaxLogCapacity :
           /\ lsLogs = NewLogStore(capacity).logs
           /\ lsSize = NewLogStore(capacity).size
    /\ lsIndex = 0
    /\ lsCount = 0
    /\ lsAdded = <<>>
    /\ lsRecent = NoRecent

\* The state of this part when a specification does not exercise it.
LsIdle ==
    /\ lsLogs = NewLogStore(1).logs
    /\ lsSize = 1
    /\ lsIndex = 0
    /\ lsCount = 0
    /\ lsAdded = <<>>
    /\ lsRecent = NoRecent

\* ------------------------------------------------- the recorder's queue
\* Events carry the number of their place among the events accepted.
NoHand == [id |-> 0]
Pending == Len(tqEvents) + (IF tqHand = NoHand THEN 0 ELSE 1)
Accepted == Len(tqLog) + Pending

\* The event Middleware builds (traffic.go:81-90), as far as the store
\* reads it; the proxy sets no X-Proxy-Backend header.
BuildEvent(path, status) ==
    [id |-> Accepted + 1, Route |-> NormalizeRoute(trRoutes, path),
     Backend |-> "", Status |-> IF status = 0 THEN StatusOK ELSE status,
     Latency |-> 0, Timestamp |-> now]

\* Middleware, up to next.ServeHTTP, for one of the requests to come.
QueueEnter(h) ==
    /\ tqBudget > 0
    /\ tqBudget' = tqBudget - 1
    /\ Enter(h)
    /\ UNCHANGED <<tqEvents, tqHand, tqLog, tqCompleted, tqDropped>>

\* Middleware after next.ServeHTTP: the select of lines 80-93 puts the
\* event into the channel or, when that is full, drops it; the request is
\* complete.
QueueSend(h, path, status) ==
    /\ TrySend(h, path, status)
    /\ IF queued < ChannelCapacity
       THEN /\ tqEvents' = Append(tqEvents, BuildEvent(path, status))
            /\ UNCHANGED tqDropped
       ELSE /\ tqDropped' = tqDropped + 1
            /\ UNCHANGED tqEvents
    /\ tqCompleted' = tqCompleted + 1
    /\ UNCHANGED <<tqHand, tqBudget, tqLog>>

\* Variant of WorkerReceive: the event is read and stays in the channel.
WorkerReceive_Peek ==
    /\ tqHand = NoHand
    /\ Drain
    /\ tqHand' = Head(tqEvents)
    /\ UNCHANGED <<tqEvents, tqBudget, tqLog, tqCompleted, tqDropped>>

\* The worker of NewTrafficRecorder: `for event := range tr.events`
\* receives the oldest event.
WorkerReceive ==
    /\ tqHand = NoHand
    /\ Drain
    /\ tqHand' = Head(tqEvents)
    /\ tqEvents' = Tail(tqEvents)
    /\ UNCHANGED <<tqBudget, tqLog, tqCompleted, tqDropped>>

\* The worker calls tr.store.Record(event); Record as in the store, for
\* any number of events.
WorkerRecord ==
    /\ tqHand # NoHand
    /\ LET minute == Truncate(tqHand.Timestamp) IN
       /\ storeRoutes' = recordInto(storeRoutes, tqHand.Route, minute, tqHand)
       /\ storeBackends' = IF tqHand.Backend # ""
                           THEN recordInto(storeBackends, tqHand.Backend,
                                           minute, tqHand)
                           ELSE storeBackends
    /\ recorded' = recorded + 1
    /\ tqLog' = Append(tqLog, tqHand.id)
    /\ tqHand' = NoHand
    /\ UNCHANGED <<retention, swept, returned>>
    /\ UNCHANGED <<tqEvents, tqBudget, tqCompleted, tqDropped>>

\* The channel as requests may find it: empty, or with one slot left
\* after `n` requests for /a completed at time 0 and the worker has not
\* run yet.
Backlog(n) ==
    [i \in 1..n |-> [id |-> i, Route |-> <<"/", "a">>, Backend |-> "",
                     Status |-> StatusOK, Latency |-> 0, Timestamp |-> 0]]

TqInit ==
    /\ tqEvents \in {Backlog(0), Backlog(ChannelCapacity - 1)}
    /\ tqHand = NoHand
    /\ tqBudget = MaxEvents
    /\ tqLog = <<>>
    /\ tqCompleted = Len(tqEvents)
    /\ tqDropped = 0

\* The state of this part when a specification does not exercise it.
TqIdle ==
    /\ tqEvents = <<>>
    /\ tqHand = NoHand
    /\ tqBudget = 0
    /\ tqLog = <<>>
    /\ tqCompleted = 0
    /\ tqDropped = 0

P5Idle == GwIdle /\ HlIdle /\ LsIdle /\ TqIdle

\* ======================================================================
\* Specifications
\* ======================================================================

\* The part of the state a specification does not exercise.
CBIdle ==
    /\ CBInit
    /\ threshold = 1 /\ timeout = 1 /\ analyzer
    /\ failBudget = NoLimit
    /\ hist = <<>>

RLIdle ==
    /\ RLInit
    /\ static = NewRateLimiter(TokenScale, TokenScale)
    /\ ~enabled
    /\ multiplier = 1

LBIdle ==
    /\ LBInit
    /\ lbBackends = <<"u1">>
    /\ strategy = "round-robin"

\* ------------------------------------------------ circuit breaker, general
Init ==
    /\ CBInit
    /\ failBudget = NoLimit
    /\ hist = <<>>
    /\ sufficientData = FALSE
    /\ now = 0
    /\ RLIdle
    /\ LBIdle
    /\ P4Idle /\ P5Idle

CBArrive == Arrive /\ UNCHANGED <<hist, rlVars, lbVars, p4Vars, p5Vars>>
CBComplete ==
    \E s \in HandlerStatuses, b \in HeaderValues :
        Complete(s, b) /\ UNCHANGED <<hist, rlVars, lbVars, p4Vars, p5Vars>>
CBTick == Tick /\ UNCHANGED <<hist, rlVars, lbVars, p4Vars, p5Vars>>

Next ==
    \/ CBArrive
    \/ CBComplete
    \/ CBTick
    \/ \E b \in Backends, n \in 2..MaxBackendSamples, e \in MeanErrorRates :
           AnalyzeBackends(b, n, e) /\ UNCHANGED <<hist, rlVars, lbVars, p4Vars, p5Vars>>
    \/ LearningElapsed /\ UNCHANGED <<hist, rlVars, lbVars, p4Vars, p5Vars>>

Spec == Init /\ [][Next]_vars

\* --------------------------------------------------- sequential failing run
\* Requests issued one after another against a static-mode breaker whose
\* backend answers every request with a 5xx; hist records each request.
MaxSeq == MaxThreshold + 2
FailingStatuses == {s \in HandlerStatuses : s >= 500}

SeqInit ==
    /\ Init
    /\ analyzer = FALSE

SeqArrive ==
    /\ inflight = 0
    /\ Len(hist) < MaxSeq
    /\ Arrive
    /\ hist' = Append(hist, [at |-> now, invoked |-> Admission.pass,
                             status |-> IF Admission.pass THEN 0
                                        ELSE StatusServiceUnavailable,
                             end |-> now])
    /\ UNCHANGED <<rlVars, lbVars, p4Vars, p5Vars>>

SeqComplete(status, backend) ==
    /\ Complete(status, backend)
    /\ hist' = [hist EXCEPT ![Len(hist)] =
                   [@ EXCEPT !.status = status, !.end = now]]
    /\ UNCHANGED <<rlVars, lbVars, p4Vars, p5Vars>>

SeqNext ==
    \/ SeqArrive
    \/ \E s \in FailingStatuses, b \in HeaderValues : SeqComplete(s, b)
    \/ CBTick

SeqSpec == SeqInit /\ [][SeqNext]_vars

\* ------------------------------------------------------------ liveness run
\* Requests keep arriving and completing, the clock keeps advancing, and the
\* backends emit at most failBudget failing responses.
LiveInit ==
    /\ CBInit
    /\ failBudget = MaxFailing
    /\ hist = <<>>
    /\ sufficientData = FALSE
    /\ now = 0
    /\ RLIdle
    /\ LBIdle
    /\ P4Idle /\ P5Idle

LiveFairness ==
    /\ WF_vars(CBTick)
    /\ WF_vars(CBArrive)
    /\ WF_vars(CBComplete)

LiveSpec == LiveInit /\ [][Next]_vars /\ LiveFairness

\* ------------------------------------------- static rate limiter on its own
RLSpecInit ==
    /\ RLInit
    /\ ~enabled /\ multiplier = 1
    /\ sufficientData = FALSE
    /\ now = 0
    /\ CBIdle
    /\ LBIdle
    /\ P4Idle /\ P5Idle

RLNext ==
    \/ \E ip \in IPs : StaticRequest(ip)
    \/ AdvanceClock(1)

RLSpec == RLSpecInit /\ [][RLNext]_vars

\* --------------------------------------------------- adaptive rate limiter
RECURSIVE SumLen(_, _)
SumLen(f, S) ==
    IF S = {} THEN 0
    ELSE LET x == CHOOSE y \in S : TRUE IN Len(f[x]) + SumLen(f, S \ {x})

ARLInit ==
    /\ RLInit
    /\ static = NewRateLimiter(TokenScale, 1)
    /\ sufficientData = FALSE
    /\ now = 0
    /\ CBIdle
    /\ LBIdle
    /\ P4Idle /\ P5Idle

ARLNext ==
    \/ \E ip \in IPs, route \in Routes :
           SumLen(served, IPs) < MaxRequests /\ AdaptiveRequest(ip, route)
    \/ \E route \in Routes, n \in RouteSampleSizes, m \in MeanRates :
           AnalyzeRoutes(route, n, m)
    \/ RLLearningElapsed
    \/ \E d \in {1, RebalanceInterval + 1} : AdvanceClock(d)

ARLSpec == ARLInit /\ [][ARLNext]_vars

\* ------------------------------------------------- proxy and load balancer
ProxyInit ==
    /\ LBInit
    /\ sufficientData = FALSE
    /\ now = 0
    /\ CBIdle
    /\ RLIdle
    /\ P4Idle /\ P5Idle

ProxyNext ==
    \/ \E rnd \in 0..(MaxBackends - 1), s \in UpstreamStatuses,
          h \in UpstreamHeaders :
           ProxyRequest(rnd, s, h) /\ UNCHANGED <<cbOwn, sufficientData, now, rlVars, p4Vars, p5Vars>>
    \/ \E route \in {ProxyRoute, UnknownRoute, ""}, url \in NewURLs :
           AddProcess(route, url) /\ UNCHANGED <<cbOwn, sufficientData, now, rlVars, p4Vars, p5Vars>>
    \/ \E url \in URLs, ok \in BOOLEAN :
           RunCheck(url, ok) /\ UNCHANGED <<cbOwn, sufficientData, now, rlVars, p4Vars, p5Vars>>
    \/ StartWeightedLB /\ UNCHANGED <<cbOwn, sufficientData, now, rlVars, p4Vars, p5Vars>>

ProxySpec == ProxyInit /\ [][ProxyNext]_vars

\* -------------------------------------------------- weighted load balancer
\* A route with two backends, before main installs its weighted selector
\* (StartWeightedLB).
WLBInit ==
    /\ LBInit
    /\ lbBackends = <<"u1", "u2">>
    /\ strategy = "round-robin"
    /\ sufficientData = FALSE
    /\ now = 0
    /\ CBIdle
    /\ RLIdle
    /\ P4Idle /\ P5Idle

WLBNext ==
    \/ StartWeightedLB /\ UNCHANGED <<cbOwn, sufficientData, now, rlVars, p4Vars, p5Vars>>
    \/ routeSelector = "wlb" /\ RebalanceCopy
           /\ UNCHANGED <<cbOwn, sufficientData, now, rlVars, p4Vars, p5Vars>>
    \/ RebalanceStore /\ UNCHANGED <<cbOwn, sufficientData, now, rlVars, p4Vars, p5Vars>>
    \/ \E url \in NewURLs :
           /\ routeSelector = "wlb"
           /\ AddProcess(ProxyRoute, url)
           /\ UNCHANGED <<cbOwn, sufficientData, now, rlVars, p4Vars, p5Vars>>
    \/ \E k \in 0..(RandSteps - 1) :
           /\ routeSelector = "wlb"
           /\ WlbNext(k)
           /\ UNCHANGED <<cbOwn, sufficientData, now, rlVars, p4Vars, p5Vars>>
    \/ \E url \in URLs, ok \in BOOLEAN :
           RunCheck(url, ok) /\ UNCHANGED <<cbOwn, sufficientData, now, rlVars, p4Vars, p5Vars>>
    \/ \E url \in URLs, b \in WlbBaselineValues :
           AnalyzeWlbBackends(url, b) /\ UNCHANGED <<cbOwn, sufficientData, now, rlVars, p4Vars, p5Vars>>

WLBSpec == WLBInit /\ [][WLBNext]_vars

\* ----------------------------------------------------------- traffic store
OthersIdle ==
    /\ P5Idle
    /\ sufficientData = FALSE
    /\ now = 0
    /\ CBIdle
    /\ RLIdle
    /\ LBIdle

StoreSpecInit == StoreInit /\ RecIdle /\ AnIdle /\ ChainIdle /\ OthersIdle

StoreNext ==
    \/ \E event \in TrafficEvents :
           Record(event)
               /\ UNCHANGED <<cbOwn, sufficientData, now, rlVars, lbVars, recVars, anVars, chainVars, p5Vars>>
    \/ \E T \in SweepTimes :
           Sweep(T)
               /\ UNCHANGED <<cbOwn, sufficientData, now, rlVars, lbVars, recVars, anVars, chainVars, p5Vars>>

StoreSpec == StoreSpecInit /\ [][StoreNext]_vars

\* Range queries on a store that successful requests without a backend are
\* recorded into.
QueryNext ==
    \/ \E event \in {e \in TrafficEvents :
                          e.Backend = "" /\ e.Status = StatusOK} :
           Record(event)
               /\ UNCHANGED <<cbOwn, sufficientData, now, rlVars, lbVars, recVars, anVars, chainVars, p5Vars>>
    \/ \E route \in StoreRoutes, range \in QueryRanges :
           Query(route, range[1], range[2])
               /\ UNCHANGED <<cbOwn, sufficientData, now, rlVars, lbVars, recVars, anVars, chainVars, p5Vars>>
    \/ \E T \in SweepTimes :
           Sweep(T)
               /\ UNCHANGED <<cbOwn, sufficientData, now, rlVars, lbVars, recVars, anVars, chainVars, p5Vars>>

QuerySpec == StoreSpecInit /\ [][QueryNext]_vars

\* -------------------------------------------------------- traffic recorder
RecorderInit ==
    /\ RecInit
    /\ declared = <<<<"/", "a">>, <<"/", "a", "/", "b">>>>
    /\ StoreIdle
    /\ AnIdle
    /\ ChainIdle
    /\ OthersIdle

RecorderNext ==
    \/ \E h \in Handlers :
           Enter(h) /\ UNCHANGED <<cbOwn, sufficientData, now, rlVars, lbVars,
                                   storeVars, anVars, chainVars, p5Vars>>
    \/ \E h \in Handlers, path \in RequestPaths, status \in InnerStatuses :
           TrySend(h, path, status)
               /\ UNCHANGED <<cbOwn, sufficientData, now, rlVars, lbVars,
                              storeVars, anVars, chainVars, p5Vars>>
    \/ Drain /\ UNCHANGED <<cbOwn, sufficientData, now, rlVars, lbVars,
                            storeVars, anVars, chainVars, p5Vars>>

RecorderSpec == RecorderInit /\ [][RecorderNext]_vars

\* Route normalisation for every declaration of up to MaxPrefixes prefixes.
NormInit ==
    /\ RecInit
    /\ StoreIdle
    /\ AnIdle
    /\ ChainIdle
    /\ OthersIdle

NormNext ==
    \E path \in RequestPaths :
        Normalize(path) /\ UNCHANGED <<cbOwn, sufficientData, now, rlVars,
                                       lbVars, storeVars, anVars, chainVars, p5Vars>>

NormSpec == NormInit /\ [][NormNext]_vars

\* The analyzer over a store that is being written: route "/a" has been
\* quiet for two minutes, then events of the third minute arrive while the
\* analyzer ticks, in three steps each.
AnalyzerEvents ==
    {event \in TrafficEvents :
        event.Backend = "u1" /\ event.Timestamp >= 2 * SecondsPerMinute}
QuietEvent(timestamp) ==
    [Route |-> "/a", Backend |-> "u1", Status |-> StatusOK, Latency |-> 0,
     Timestamp |-> timestamp]
QuietRoutes ==
    recordInto(recordInto(EmptyMap, "/a", 0, QuietEvent(0)),
               "/a", SecondsPerMinute, QuietEvent(SecondsPerMinute))
QuietBackends ==
    recordInto(recordInto(EmptyMap, "u1", 0, QuietEvent(0)),
               "u1", SecondsPerMinute, QuietEvent(SecondsPerMinute))

AnalyzerInit ==
    /\ storeRoutes = QuietRoutes
    /\ storeBackends = QuietBackends
    /\ retention = DefaultRetention
    /\ recorded = 0
    /\ swept = FALSE
    /\ returned = NoQuery
    /\ AnInit
    /\ RecIdle
    /\ ChainIdle
    /\ OthersIdle

AnalyzerNext ==
    \/ \E event \in AnalyzerEvents :
           Record(event)
               /\ UNCHANGED <<cbOwn, sufficientData, now, rlVars, lbVars,
                              recVars, anVars, chainVars, p5Vars>>
    \/ \E T \in TickTimes :
           TickRoutes(T)
               /\ UNCHANGED <<cbOwn, sufficientData, now, rlVars, lbVars,
                              storeVars, recVars, chainVars, p5Vars>>
    \/ TickBackends
           /\ UNCHANGED <<cbOwn, sufficientData, now, rlVars, lbVars,
                          storeVars, recVars, chainVars, p5Vars>>
    \/ TickPrune
           /\ UNCHANGED <<cbOwn, sufficientData, now, rlVars, lbVars,
                          storeVars, recVars, chainVars, p5Vars>>

AnalyzerSpec == AnalyzerInit /\ [][AnalyzerNext]_vars

\* The analyzer ticking over a store at rest while a reader reads the route
\* baselines and then the backend baselines.
SnapshotNext ==
    \/ \E T \in TickTimes :
           TickRoutes(T)
               /\ UNCHANGED <<cbOwn, sufficientData, now, rlVars, lbVars,
                              storeVars, recVars, chainVars, p5Vars>>
    \/ TickBackends
           /\ UNCHANGED <<cbOwn, sufficientData, now, rlVars, lbVars,
                          storeVars, recVars, chainVars, p5Vars>>
    \/ TickPrune
           /\ UNCHANGED <<cbOwn, sufficientData, now, rlVars, lbVars,
                          storeVars, recVars, chainVars, p5Vars>>
    \/ ReadRoutes
           /\ UNCHANGED <<cbOwn, sufficientData, now, rlVars, lbVars,
                          storeVars, recVars, chainVars, p5Vars>>
    \/ ReadBackends
           /\ UNCHANGED <<cbOwn, sufficientData, now, rlVars, lbVars,
                          storeVars, recVars, chainVars, p5Vars>>

SnapshotSpec == AnalyzerInit /\ [][SnapshotNext]_vars

\* One request through a chain of up to MaxStages middlewares.
ChainSpecInit ==
    /\ ChainInit
    /\ StoreIdle
    /\ RecIdle
    /\ AnIdle
    /\ OthersIdle

ChainNext ==
    \/ StageEnter /\ UNCHANGED <<cbOwn, sufficientData, now, rlVars, lbVars,
                                 storeVars, recVars, anVars, p5Vars>>
    \/ StageReject /\ UNCHANGED <<cbOwn, sufficientData, now, rlVars, lbVars,
                                  storeVars, recVars, anVars, p5Vars>>
    \/ HandlerRun /\ UNCHANGED <<cbOwn, sufficientData, now, rlVars, lbVars,
                                 storeVars, recVars, anVars, p5Vars>>
    \/ StageExit /\ UNCHANGED <<cbOwn, sufficientData, now, rlVars, lbVars,
                                storeVars, recVars, anVars, p5Vars>>

ChainSpec == ChainSpecInit /\ [][ChainNext]_vars

\* ----------------------------------------------------- gateway pipeline
\* The breaker as a request may find it: new, or opened by one failure at
\* time 0 with the timeout not yet over (now = 1) or over (now = 2).
GatewayBreakers ==
    {[state |-> StateClosed, failureCount |-> 0, totalCount |-> 0,
      lastFailure |-> ZeroTime, now |-> 1],
     [state |-> StateOpen, failureCount |-> 1, totalCount |-> 1,
      lastFailure |-> 0, now |-> 1],
     [state |-> StateOpen, failureCount |-> 1, totalCount |-> 1,
      lastFailure |-> 0, now |-> 2]}

\* The static limiter as a request may find it: new, or with the client's
\* bucket emptied by a request at this instant.
GatewayLimiters ==
    LET rl == NewRateLimiter(TokenScale, 1) IN
    {rl, Decide(rl, "ip1").limiter}

GatewayInit ==
    /\ GwInit
    /\ \E b \in GatewayBreakers :
           /\ state = b.state
           /\ failureCount = b.failureCount
           /\ totalCount = b.totalCount
           /\ lastFailure = b.lastFailure
           /\ now = b.now
    /\ threshold = 1 /\ timeout = 1 /\ analyzer = FALSE
    /\ backendBaselines = [b \in Backends |-> NoBaseline]
    /\ inflight = 0
    /\ last = NoResponse
    /\ failBudget = NoLimit
    /\ hist = <<>>
    /\ sufficientData = FALSE
    /\ static \in GatewayLimiters
    /\ routeLimiters = [route \in Routes |-> NoLimiter]
    /\ lastRebalance = ZeroTimeRL
    /\ enabled = FALSE
    /\ multiplier = 1
    /\ minLimit = DefaultMinLimit
    /\ maxLimit = DefaultMaxLimit
    /\ routeBaselines = [route \in Routes |-> NoRouteBaseline]
    /\ served = [ip \in IPs |-> <<>>]
    /\ firstSeen = [ip \in IPs |-> 0]
    /\ declared = <<<<"/", "a">>>>
    /\ trRoutes = declared
    /\ queued \in {0, ChannelCapacity}
    /\ trPc = [h \in Handlers |-> "idle"]
    /\ lastEvent = NoEvent
    /\ lastNorm = NoNorm
    /\ LBIdle
    /\ StoreIdle /\ AnIdle /\ ChainIdle
    /\ HlIdle /\ LsIdle /\ TqIdle

GwRest == <<lbVars, storeVars, anVars, chainVars, hlVars, lsVars, tqVars>>

GatewayNext ==
    \/ GwCall /\ UNCHANGED GwRest
    \/ \E code \in {StatusOK, 500} : GwWriteHeader(code) /\ UNCHANGED GwRest
    \/ \E n \in {0, 2} : GwWrite(n) /\ UNCHANGED GwRest
    \/ \E id \in {<<"u", "p">>} : GwCopyHeader(id) /\ UNCHANGED GwRest
    \/ GwHandlerReturn /\ UNCHANGED GwRest
    \/ GwReturn /\ UNCHANGED GwRest

GatewaySpec == GatewayInit /\ [][GatewayNext]_vars

\* ---------------------------------------------- health registry's locking
HealthLockInit ==
    /\ HlInit
    /\ GwIdle /\ LsIdle /\ TqIdle
    /\ sufficientData = FALSE
    /\ now = 0
    /\ CBIdle
    /\ RLIdle
    /\ LBIdle
    /\ P4Idle

HlRest == <<cbOwn, sufficientData, now, rlVars, lbVars, p4Vars, gwVars,
            lsVars, tqVars>>

HealthLockNext ==
    \/ RunChecksStart /\ UNCHANGED HlRest
    \/ RunChecksRange /\ UNCHANGED HlRest
    \/ \E healthy \in BOOLEAN : RunChecksProbe(healthy) /\ UNCHANGED HlRest
    \/ RunChecksLock /\ UNCHANGED HlRest
    \/ RunChecksUpdate /\ UNCHANGED HlRest
    \/ \E url \in HlURLs : AddBackendLock(url) /\ UNCHANGED HlRest
    \/ AddBackendInsert /\ UNCHANGED HlRest
    \/ AddBackendUnlock /\ UNCHANGED HlRest
    \/ \E url \in HlURLs : IsHealthyRLock(url) /\ UNCHANGED HlRest
    \/ IsHealthyRead /\ UNCHANGED HlRest

HealthLockSpec == HealthLockInit /\ [][HealthLockNext]_vars

\* ------------------------------------------------------------- log store
LogStoreInit ==
    /\ LsInit
    /\ GwIdle /\ HlIdle /\ TqIdle
    /\ sufficientData = FALSE
    /\ now = 0
    /\ CBIdle
    /\ RLIdle
    /\ LBIdle
    /\ P4Idle

LsRest == <<cbOwn, sufficientData, now, rlVars, lbVars, p4Vars, gwVars,
            hlVars, tqVars>>

LogStoreNext ==
    \/ \E status \in {StatusOK, 500} : Add(status) /\ UNCHANGED LsRest
    \/ \E n \in (0 - 1)..(MaxAdds + 1) : Recent(n) /\ UNCHANGED LsRest

LogStoreSpec == LogStoreInit /\ [][LogStoreNext]_vars

\* ----------------------------------------------------- recorder's queue
QueueInit ==
    /\ TqInit
    /\ declared = <<<<"/", "a">>>>
    /\ trRoutes = declared
    /\ queued = Len(tqEvents)
    /\ trPc = [h \in Handlers |-> "idle"]
    /\ lastEvent = NoEvent
    /\ lastNorm = NoNorm
    /\ StoreIdle
    /\ AnIdle
    /\ ChainIdle
    /\ GwIdle /\ HlIdle /\ LsIdle
    /\ sufficientData = FALSE
    /\ now = 0
    /\ CBIdle
    /\ RLIdle
    /\ LBIdle

TqRest == <<cbOwn, sufficientData, now, rlVars, lbVars, anVars, chainVars,
            gwVars, hlVars, lsVars>>

QueueEnters == \E h \in Handlers : QueueEnter(h) /\ UNCHANGED <<storeVars, TqRest>>
QueueSends ==
    \E h \in Handlers, path \in {<<"/", "a", "/", "b">>}, status \in {0, 500} :
        QueueSend(h, path, status) /\ UNCHANGED <<storeVars, TqRest>>
WorkerReceives == WorkerReceive /\ UNCHANGED <<storeVars, TqRest>>
WorkerRecords == WorkerRecord /\ UNCHANGED <<recVars, TqRest>>

QueueNext ==
    \/ QueueEnters
    \/ QueueSends
    \/ WorkerReceives
    \/ WorkerRecords

QueueSpec == QueueInit /\ [][QueueNext]_vars

\* The worker goroutine is scheduled whenever it can run.
QueueLiveSpec ==
    QueueSpec /\ WF_vars(WorkerReceives) /\ WF_vars(WorkerRecords)

\* ======================================================================
\* Claims
\* ======================================================================

\* Steps of the breaker as the observers show them: an outcome is recorded,
\* a request is admitted to the inner handler, a request is rejected.
Completes == inflight' = inflight - 1
Admitted == inflight' = inflight + 1
Rejected == inflight' = inflight /\ last' # last
Arrives == Admitted \/ Rejected

\* C1: whenever a request that went through the inner handler has its
\* outcome recorded with a final status below 500, the breaker is CLOSED and
\* failureCount is 0 right after the recording, whatever the state was
\* before and whatever other requests are in flight.
C1_SuccessCloses ==
    [][(Completes /\ last'.status < 500)
           => (state' = StateClosed /\ failureCount' = 0)]_vars

\* A success was recorded while the breaker was OPEN and another request is
\* still in flight.
C1_Witness ==
    /\ last.invoked /\ last.status = 499
    /\ last.found = StateOpen
    /\ inflight > 0
    /\ state = StateClosed /\ failureCount = 0

Completed(i) == hist[i].status # 0

\* C2: static mode, threshold N, sequential requests that all fail: each of
\* the first N requests reaches the inner handler and returns its 5xx
\* status; the breaker is OPEN once the N-th outcome is recorded; request
\* N+1, when issued within the timeout of that, gets 503 without reaching
\* the inner handler.
C2_TripAfterThreshold ==
    /\ \A i \in 1..Len(hist) :
          i <= threshold =>
              /\ hist[i].invoked
              /\ Completed(i) => hist[i].status \in FailingStatuses
    /\ (Len(hist) = threshold /\ Completed(threshold)) => state = StateOpen
    /\ (Len(hist) > threshold
            /\ hist[threshold + 1].at - hist[threshold].end <= timeout)
          => /\ ~hist[threshold + 1].invoked
             /\ hist[threshold + 1].status = StatusServiceUnavailable

\* With the largest threshold: N failures went through, request N+1 was
\* rejected.
C2_Witness ==
    /\ threshold = MaxThreshold
    /\ Len(hist) > threshold
    /\ \A i \in 1..threshold : hist[i].invoked /\ hist[i].status >= 500
    /\ ~hist[threshold + 1].invoked
    /\ hist[threshold + 1].status = StatusServiceUnavailable

\* C3: a request arriving while the breaker is OPEN and
\* now - lastFailure <= timeout is answered 503, never reaches the inner
\* handler, and leaves state, failureCount, totalCount, lastFailure as they
\* were.
C3_OpenRejects ==
    [][(Arrives /\ state = StateOpen /\ now - lastFailure <= timeout)
           => /\ ~Admitted
              /\ last'.status = StatusServiceUnavailable
              /\ ~last'.invoked
              /\ UNCHANGED cbFields]_vars

\* A request was rejected, and now - lastFailure = timeout.
C3_Witness ==
    /\ ~last.invoked
    /\ last.status = StatusServiceUnavailable
    /\ state = StateOpen
    /\ now - lastFailure = timeout

\* C4 (as claimed): while the breaker is HALF_OPEN (the probe admitted by
\* the OPEN -> HALF_OPEN transition has no outcome recorded yet), no other
\* arriving request is passed to the inner handler.
C4_OnlyOneProbe ==
    [][(Arrives /\ state = StateHalfOpen) => ~Admitted]_vars

\* C5: a request whose outcome is recorded while the breaker is HALF_OPEN
\* closes it when its status is below 500, and reopens it with
\* lastFailure = now when its status is >= 500, whatever the counters and
\* thresholds are.
C5_HalfOpenOutcome ==
    [][(Completes /\ state = StateHalfOpen)
           => IF last'.status < 500
              THEN state' = StateClosed
              ELSE state' = StateOpen /\ lastFailure' = now]_vars

\* A failure recorded in HALF_OPEN reopened the breaker although shouldTrip
\* is false for the counters it left (dynamic mode, 5 x baseline >= 100%).
C5_Witness ==
    /\ last.invoked /\ last.status >= 500
    /\ last.found = StateHalfOpen
    /\ state = StateOpen /\ lastFailure = now
    /\ analyzer /\ sufficientData
    /\ backendBaselines["b1"].present
    /\ ~shouldTrip(failureCount, totalCount, "b1")

\* C6: OPEN is never permanent: when requests keep arriving, time advances
\* and only finitely many requests fail, an OPEN breaker eventually is
\* CLOSED again.
C6_OpenNotPermanent == (state = StateOpen) ~> (state = StateClosed)

\* Static threshold 1: a failure was recorded (which opened the breaker or
\* kept it open) and a probe's success has closed the breaker again.
C6_Witness ==
    /\ threshold = 1 /\ ~analyzer
    /\ lastFailure # ZeroTime
    /\ state = StateClosed
    /\ last.invoked /\ last.status < 500
    /\ last.found = StateHalfOpen

Max(a, b) == IF a >= b THEN a ELSE b

\* The decision the claim states, for counters fc, tc and header value b:
\* the threshold is max(5%, 5 x mean error rate), the mean taken as 0 where
\* the backend has no baseline.
C7_Claimed(fc, tc, b) ==
    IF analyzer /\ sufficientData /\ tc > 0
    THEN fc * 100 > tc * Max(5, 5 * GetBackendBaseline(b).MeanErrorRate)
    ELSE fc >= threshold

Min(a, b) == IF a <= b THEN a ELSE b
Last(q) == q[Len(q)]
Decided(ip) == Len(served'[ip]) > Len(served[ip])

\* C8: static limiter of capacity C, a client seen for the first time: while
\* the time since its first request would refill less than one token, a
\* request is passed to the next handler exactly when it is among the first
\* C of the client, and every later one is answered 429.
C8_BurstFirstCPass ==
    [][\A ip \in IPs :
          (Decided(ip)
               /\ (now - firstSeen'[ip]) * static.refillRate < TokenScale)
          => LET d == Last(served'[ip]) IN
             IF Len(served'[ip]) * TokenScale <= static.maxTokens
             THEN d.next /\ d.allowed
             ELSE ~d.next /\ d.status = StatusTooManyRequests]_vars

\* Capacity 2: a burst of three requests spanning more than one clock tick,
\* the first two passed and the third answered 429.
C8_Witness ==
    \E ip \in IPs :
        /\ static.maxTokens = 2 * TokenScale
        /\ Len(served[ip]) = 3
        /\ now > firstSeen[ip]
        /\ (now - firstSeen[ip]) * static.refillRate < TokenScale
        /\ static.buckets[ip].lastRefill = now
        /\ served[ip][1].next /\ served[ip][2].next
        /\ ~served[ip][3].next
        /\ served[ip][3].status = StatusTooManyRequests

\* C9: allow() on an existing bucket sets lastRefill to now, refills to
\* min(capacity, tokens + elapsed x refillRate), and allows exactly when the
\* refilled count is at least one token, taking exactly one token then and
\* none otherwise.
C9_AllowRefillsThenTakesOne ==
    [][\A ip \in IPs :
          (Decided(ip) /\ static.buckets[ip].present)
          => LET b == static.buckets[ip]
                 refilled == Min(b.maxTokens,
                                 b.tokens + (now - b.lastRefill) * b.refillRate)
                 after == static'.buckets[ip]
             IN /\ after.lastRefill = now
                /\ IF refilled >= TokenScale
                   THEN /\ Last(served'[ip]).allowed
                        /\ after.tokens = refilled - TokenScale
                   ELSE /\ ~Last(served'[ip]).allowed
                        /\ after.tokens = refilled]_vars

\* A request was denied at 59/60 of a token, and the count was kept.
C9_Witness ==
    \E ip \in IPs :
        /\ served[ip] # <<>>
        /\ ~Last(served[ip]).allowed
        /\ static.buckets[ip].lastRefill = now
        /\ static.buckets[ip].tokens = TokenScale - 1

\* C10: every request the rate limiter denies, by the static limiter or by
\* a per-route adaptive limiter, is answered 429 and is not passed to the
\* next handler.
C10_DeniedStopsChain ==
    \A ip \in IPs :
        \A i \in 1..Len(served[ip]) :
            ~served[ip][i].allowed
                => /\ served[ip][i].status = StatusTooManyRequests
                   /\ ~served[ip][i].next

\* One denial by the static limiter and one by a per-route limiter happened.
C10_Witness ==
    /\ \E ip \in IPs : \E i \in 1..Len(served[ip]) :
           ~served[ip][i].allowed /\ served[ip][i].via = "static"
    /\ \E ip \in IPs : \E i \in 1..Len(served[ip]) :
           ~served[ip][i].allowed /\ served[ip][i].via \in Routes

\* C11: every per-route limiter the adaptive rate limiter has installed (which
\* it does only once the analyzer reports sufficient data, for a route whose
\* baseline has sample size >= 5) has a capacity of `limit` tokens with
\* minLimit <= limit <= maxLimit, and refills limit/60 tokens per second.
C11_LimitWithinBounds ==
    \A route \in Routes :
        routeLimiters[route].present =>
            LET rl == routeLimiters[route] IN
            /\ sufficientData
            /\ minLimit * TokenScale <= rl.maxTokens
            /\ rl.maxTokens <= maxLimit * TokenScale
            /\ rl.refillRate * SecondsPerMinute = rl.maxTokens

\* A limiter was installed at maxLimit for a route whose mean rate times the
\* (default) multiplier lies above maxLimit.
C11_Witness ==
    \E route \in Routes :
        /\ routeLimiters[route].present
        /\ routeBaselines[route].SampleSize >= MinRouteSamples
        /\ routeBaselines[route].MeanRate * multiplier > maxLimit
        /\ multiplier = DefaultMultiplier
        /\ routeLimiters[route].maxTokens = maxLimit * TokenScale

\* C12 (as claimed): a request is decided by a per-route limiter only when
\* adaptive limiting is enabled, the analyzer has sufficient data and the
\* route's current baseline has at least 5 sample buckets; in every other
\* case the static limiter decides.
C12_DelegatesToStatic ==
    [][\A ip \in IPs, route \in Routes :
          (Decided(ip) /\ Last(served'[ip]).via = route)
              => /\ enabled
                 /\ sufficientData
                 /\ routeBaselines[route].present
                 /\ routeBaselines[route].SampleSize >= MinRouteSamples]_vars

\* C13 (as claimed): a weighted load balancer with at least one backend has
\* weights that sum to 1, after construction, after every Rebalance and
\* after every AddBackend.
C13_WeightsSumToOne ==
    (routeSelector = "wlb" /\ Len(wlbBackends) >= 1)
        => SumWeights(wlbWeights) = RatOne

\* C14 (as claimed): when a Rebalance stores its weights for n backends,
\* every backend whose baseline is missing or has SampleSize < 2 holds
\* weight exactly 1/n.
C14_UnknownGetsUniform ==
    [][(rebalancing.active /\ ~rebalancing'.active)
           => \A i \in 1..Len(wlbWeights') :
                 LET baseline == wlbBaselines[wlbWeights'[i].url] IN
                 (~baseline.present \/ baseline.SampleSize < 2)
                     => wlbWeights'[i].weight = Rat(1, Len(wlbWeights'))]_vars


\* C15: whenever at least one backend of the route is marked healthy, Next()
\* of the round-robin/random selector and Next() of the weighted selector
\* return a backend that is marked healthy, whatever the random draw.
C15_NextReturnsHealthy ==
    /\ (\E i \in 1..Len(lbBackends) : IsHealthy(lbBackends[i]))
          => \A rnd \in 0..(MaxBackends - 1) :
                 IsHealthy(LoadBalancerNext(rnd).url)
    /\ (routeSelector = "wlb"
           /\ \E i \in 1..Len(wlbBackends) : IsHealthy(wlbBackends[i]))
          => \A k \in 0..(RandSteps - 1) : IsHealthy(WeightedNext(k))


\* C16: with the round-robin strategy, the picks made while the healthy
\* subset (k backends) has not changed cycle through it in list order, and
\* any N consecutive picks select each of its backends floor(N/k) or
\* ceil(N/k) times.
C16_RoundRobinFair ==
    (strategy = "round-robin" /\ picks # <<>>) =>
        LET healthy == healthyBackends
            k == Len(healthy)
            pos(u) == CHOOSE i \in 1..k : healthy[i] = u
            count(u, a, b) == Cardinality({j \in a..b : picks[j] = u})
        IN /\ \A j \in 1..Len(picks) : picks[j] \in Range(healthy)
           /\ \A j \in 1..(Len(picks) - 1) :
                  pos(picks[j + 1]) = (pos(picks[j]) % k) + 1
           /\ \A a \in 1..Len(picks), b \in 1..Len(picks), u \in Range(healthy) :
                  a <= b =>
                      LET N == b - a + 1 IN
                      /\ count(u, a, b) >= N \div k
                      /\ count(u, a, b) <= (N + k - 1) \div k

\* Three backends, one of them unhealthy, and the two healthy ones have
\* shared at least three consecutive picks.
C16_Witness ==
    /\ strategy = "round-robin"
    /\ Len(lbBackends) = 3
    /\ Len(healthyBackends) = 2
    /\ Len(picks) >= 3
    /\ \E i \in 1..3 : ~IsHealthy(lbBackends[i])


C18_RequestsUseNewSelector ==
    (routeSelector = "wlb" /\ lastReq # NoRequest) => lastReq.by = "wlb"

\* C19: the response to every request the proxy forwarded carries an
\* X-Proxy-Backend header equal to the URL of the backend selected.
C19_HeaderNamesBackend ==
    (lastReq # NoRequest /\ lastReq.forwarded)
        => lastReq.header = lastReq.backend

\* C20: adding a backend to the configured route puts the URL into the
\* backend list requests for the route are selected from (the list of the
\* LoadBalancer the handler calls) and leaves it registered with the health
\* checker, unhealthy if it was not registered before; a call that fails
\* for an unknown route changes no selector and no health status.
C20_AddBackend ==
    [][/\ \A url \in URLs :
              (/\ url \notin Range(lbBackends) \cup Range(wlbBackends)
               /\ url \in Range(lbBackends') \cup Range(wlbBackends'))
                  => /\ url \in Range(lbBackends')
                     /\ hcStatus'[url] = IF hcStatus[url] = "none"
                                         THEN "unhealthy" ELSE hcStatus[url]
       /\ (lastAdd'.err /\ lastAdd' # lastAdd)
              => UNCHANGED <<lbBackends, wlbBackends, wlbWeights, hcStatus>>
      ]_vars


\* The buckets of a bucket map, and the requests counted in a query result.
BucketsOf(m) ==
    UNION {{m[key][ts] : ts \in DOMAIN m[key]} : key \in DOMAIN m}

RECURSIVE SumRequests(_)
SumRequests(buckets) ==
    IF buckets = <<>> THEN 0
    ELSE Head(buckets).RequestCount + SumRequests(Tail(buckets))

RECURSIVE TotalRequests(_)
TotalRequests(all) ==
    IF DOMAIN all = {} THEN 0
    ELSE LET key == CHOOSE k \in DOMAIN all : TRUE IN
         SumRequests(all[key])
             + TotalRequests([k \in DOMAIN all \ {key} |-> all[k]])

\* C21: every route bucket and every backend bucket of the store has
\* ErrorCount <= RequestCount and MaxLatency >= AvgLatency().
C21_BucketInvariant ==
    \A B \in BucketsOf(storeRoutes) \cup BucketsOf(storeBackends) :
        /\ B.ErrorCount <= B.RequestCount
        /\ B.MaxLatency >= AvgLatency(B)

\* A backend bucket holds three requests, some of them errors and some
\* not, with a maximum latency above the (non-zero) average.
C21_Witness ==
    \E B \in BucketsOf(storeBackends) :
        /\ B.RequestCount = 3
        /\ B.ErrorCount > 0 /\ B.ErrorCount < B.RequestCount
        /\ AvgLatency(B) > 0 /\ B.MaxLatency > AvgLatency(B)

\* C22: as long as no retention sweep has run, the RequestCount values of
\* the route buckets a query over the whole time range returns sum to the
\* number of events recorded.
C22_CountsSumToRecorded ==
    ~swept => TotalRequests(GetAllBuckets(0, EndOfTime)) = recorded

\* MaxEvents events were recorded, for both routes and into two buckets of
\* one of them.
C22_Witness ==
    /\ ~swept
    /\ recorded = MaxEvents
    /\ DOMAIN storeRoutes = StoreRoutes
    /\ \E route \in StoreRoutes : Cardinality(DOMAIN storeRoutes[route]) = 2
    /\ TotalRequests(GetAllBuckets(0, EndOfTime)) = MaxEvents

\* C23: after a retention sweep at time T neither map holds a bucket with
\* timestamp < T - retention, no outer key is left with an empty bucket
\* map, and every bucket with timestamp >= T - retention that was there
\* before is still there, unchanged.
C23_SweepRemovesExpiredOnly ==
    \A T \in SweepTimes :
        LET cutoff == T - retention
            Holds(pre, post) ==
                /\ \A key \in DOMAIN post :
                       /\ DOMAIN post[key] # {}
                       /\ \A ts \in DOMAIN post[key] : ts >= cutoff
                /\ \A key \in DOMAIN pre :
                       \A ts \in DOMAIN pre[key] :
                           ts >= cutoff =>
                               /\ key \in DOMAIN post
                               /\ ts \in DOMAIN post[key]
                               /\ post[key][ts] = pre[key][ts]
        IN /\ Holds(storeRoutes, cleanup(T).routes)
           /\ Holds(storeBackends, cleanup(T).backends)

\* A sweep has removed every bucket of one route and kept, of the other, a
\* bucket while removing an older one; a backend bucket was kept too.
C23_Witness ==
    /\ swept
    /\ recorded = MaxEvents
    /\ Cardinality(DOMAIN storeRoutes) = 1
    /\ TotalRequests(GetAllBuckets(0, EndOfTime)) = 1
    /\ DOMAIN storeBackends # {}


\* C24: GetBuckets(route, from, to) returns exactly the route's buckets
\* with from <= timestamp < to, each once, in strictly ascending timestamp
\* order; and the buckets a call returned stay as they were returned
\* whatever is recorded or swept afterwards.
C24_RangeQuery ==
    /\ [](\A route \in StoreRoutes, from \in QueryTimes, to \in QueryTimes :
           LET result == GetBuckets(route, from, to)
               inRange == IF route \in DOMAIN storeRoutes
                          THEN {storeRoutes[route][ts] :
                                    ts \in {t \in DOMAIN storeRoutes[route] :
                                                from <= t /\ t < to}}
                          ELSE {}
           IN /\ Range(result) = inRange
              /\ Len(result) = Cardinality(inRange)
              /\ \A i \in 1..Len(result), j \in 1..Len(result) :
                     i < j => result[i].Timestamp < result[j].Timestamp)
    /\ [][returned.route # "" => returned' = returned]_vars

\* A call returned two buckets, and one of them has since been changed in
\* the store by a later Record.
C24_Witness ==
    /\ Len(returned.buckets) = 2
    /\ returned.route \in DOMAIN storeRoutes
    /\ \E i \in 1..2 :
           LET b == returned.buckets[i] IN
           /\ b.Timestamp \in DOMAIN storeRoutes[returned.route]
           /\ storeRoutes[returned.route][b.Timestamp] # b


\* C25: the traffic recorder never blocks the request path: a request that
\* is back from the inner handler can always finish, whatever the channel
\* holds and whether or not the worker drains it; the channel never holds
\* more than ChannelCapacity events; the event is dropped exactly when the
\* channel is full, and the status the client gets is the inner handler's.
C25_RecorderNeverBlocks ==
    /\ [](/\ queued <= ChannelCapacity
          /\ \A h \in Handlers :
                 trPc[h] = "inner" =>
                     ENABLED (\E path \in RequestPaths,
                                 status \in InnerStatuses :
                                  TrySend(h, path, status)))
    /\ [][\A h \in Handlers :
              (trPc[h] = "inner" /\ trPc'[h] = "idle") =>
                  /\ lastEvent'.dropped <=> (queued = ChannelCapacity)
                  /\ queued' = IF lastEvent'.dropped
                               THEN queued ELSE queued + 1
                  /\ lastEvent'.response \in InnerStatuses]_vars

\* With the channel full, a request that got a 500 from the inner handler
\* has returned and its event was dropped.
C25_Witness ==
    /\ queued = ChannelCapacity
    /\ lastEvent.dropped
    /\ lastEvent.response = 500
    /\ \A h \in Handlers : trPc[h] = "idle"

\* C26: NormalizeRoute(path) is the longest configured prefix p with
\* path = p or path starting with p + "/", and the path itself when there
\* is none; the result is the same for every order in which the same
\* prefixes are declared and every order the sort may leave them in.
C26_LongestPrefix ==
    /\ \A path \in Paths :
           LET result == NormalizeRoute(trRoutes, path)
               matching == {prefix \in Range(declared) :
                               \/ path = prefix
                               \/ HasPrefix(path, prefix \o <<"/">>)}
           IN /\ matching = {} => result = path
              /\ matching # {} =>
                     /\ result \in matching
                     /\ \A prefix \in matching : Len(prefix) <= Len(result)
    /\ \A sorted \in UNION {SortedLongestFirst(other) :
                              other \in {q \in [1..Len(declared)
                                                    -> Range(declared)] :
                                             Range(q) = Range(declared)}} :
           \A path \in Paths :
               NormalizeRoute(sorted, path) = NormalizeRoute(trRoutes, path)

\* The shorter of two matching prefixes was declared first, and the longer
\* one was returned.
C26_Witness ==
    /\ Len(declared) = 3
    /\ declared[1] = <<"/", "a">>
    /\ declared[2] = <<"/", "a", "/", "b">>
    /\ lastNorm.path = <<"/", "a", "/", "b">>
    /\ lastNorm.route = <<"/", "a", "/", "b">>


\* The buckets of a route in the window of a tick at time T, the anomalies
\* a step appended, and the values a metric takes on a bucket and on a
\* route baseline.
InWindow(route, T) ==
    IF route \in DOMAIN storeRoutes
    THEN {ts \in DOMAIN storeRoutes[route] : T - window <= ts /\ ts < T}
    ELSE {}
NewAnomalies == SubSeq(anomalies', Len(anomalies) + 1, Len(anomalies'))
Metrics == {"request_rate", "error_rate", "latency"}
MetricOf(b, metric) ==
    CASE metric = "request_rate" -> b.RequestCount
      [] metric = "error_rate" -> ErrorRate(b)
      [] metric = "latency" -> AvgLatency(b)
BaselineMean(baseline, metric) ==
    CASE metric = "request_rate" -> baseline.MeanRate
      [] metric = "error_rate" -> baseline.MeanErrorRate
      [] metric = "latency" -> baseline.MeanLatencyMs
BaselineStdDev(baseline, metric) ==
    CASE metric = "request_rate" -> baseline.StdDevRate
      [] metric = "error_rate" -> baseline.StdDevError
      [] metric = "latency" -> baseline.StdDevLatency
IsTickRoutes == anPc.at = "idle" /\ anPc'.at = "backends"

\* C27: an analyzer tick records no anomaly for a route with fewer than 2
\* buckets in the window and leaves that route's baseline as it was, and
\* records no anomaly for a metric whose baseline has a standard deviation
\* of 0 or a mean of 0.
C27_NoAnomalyWithoutBaseline ==
    [][IsTickRoutes =>
           /\ SubSeq(anomalies', 1, Len(anomalies)) = anomalies
           /\ \A route \in StoreRoutes :
                  Cardinality(InWindow(route, anPc'.now)) < 2 =>
                      /\ route \in DOMAIN anRouteBaselines'
                             <=> route \in DOMAIN anRouteBaselines
                      /\ route \in DOMAIN anRouteBaselines =>
                             anRouteBaselines'[route] = anRouteBaselines[route]
                      /\ \A i \in 1..Len(NewAnomalies) :
                             NewAnomalies[i].Route # route
           /\ \A i \in 1..Len(NewAnomalies) :
                  LET baseline == anRouteBaselines'[NewAnomalies[i].Route] IN
                  /\ BaselineStdDev(baseline, NewAnomalies[i].Metric) # RatZero
                  /\ BaselineMean(baseline, NewAnomalies[i].Metric) # RatZero]_vars

\* A second tick, a minute after the first, found only one bucket of "/a"
\* in its window of two minutes; the baseline of the first tick is there.
C27_Witness ==
    /\ ticks = 2
    /\ anPc.at = "backends"
    /\ anPc.now = 240
    /\ window = 2 * SecondsPerMinute
    /\ Cardinality(InWindow("/a", anPc.now)) = 1
    /\ "/a" \in DOMAIN anRouteBaselines
    /\ anRouteBaselines["/a"].SampleSize = 2

\* For the values of a metric on the buckets of a window: whether mean and
\* standard deviation are both non-zero, and whether the z-score of the
\* last value exceeds the threshold.  With n values of sum S and sum of
\* squares Q and last value c: mean = S/n, stddev = sqrt(n*Q - S*S)/n and
\* z = (n*c - S) / sqrt(n*Q - S*S).
SumSquares(values) ==
    SumOf([i \in 1..Len(values) |-> values[i] * values[i]])
Spread(values) ==
    Len(values) * SumSquares(values) - SumOf(values) * SumOf(values)
Lead(values) == Len(values) * values[Len(values)] - SumOf(values)
Measurable(values) == SumOf(values) # 0 /\ Spread(values) # 0
Anomalous(values) ==
    /\ Lead(values) > 0
    /\ Lead(values) * Lead(values)
           > zThreshold * zThreshold * Spread(values)

\* C28: on an analyzer tick, for each route with at least 2 buckets in the
\* window and each metric with non-zero mean and standard deviation, one
\* anomaly for the route and the metric is appended to the list exactly
\* when the z-score of the most recent bucket exceeds the threshold; it is
\* appended whether or not the anomaly channel is full: the channel takes
\* the new anomalies it has room for, the others are dropped, and the tick
\* goes on to its next step.
C28_AnomalyExactlyAboveThreshold ==
    /\ [](anChannel <= AnomalyCapacity)
    /\ [][IsTickRoutes =>
              /\ anChannel' = Min(AnomalyCapacity, anChannel + Len(NewAnomalies))
              /\ \A route \in StoreRoutes :
                     LET T == anPc'.now
                         buckets == GetBuckets(route, T - window, T)
                     IN Len(buckets) >= 2 =>
                            \A metric \in Metrics :
                                LET values == [i \in 1..Len(buckets) |->
                                                  MetricOf(buckets[i], metric)]
                                    found == {i \in 1..Len(NewAnomalies) :
                                                 /\ NewAnomalies[i].Route = route
                                                 /\ NewAnomalies[i].Metric = metric}
                                IN Measurable(values) =>
                                       /\ Cardinality(found) <= 1
                                       /\ found # {} <=> Anomalous(values)]_vars

\* With the channel full, a tick has listed an anomaly of the error rate
\* of "/a", whose third minute had errors only.
C28_Witness ==
    /\ anChannel = AnomalyCapacity
    /\ anPc.at = "idle"
    /\ ticks >= 1
    /\ \E i \in 1..Len(anomalies) :
           /\ anomalies[i].Route = "/a"
           /\ anomalies[i].Metric = "error_rate"


\* C29: a reader running while the analyzer ticks sees the baselines of
\* routes and backends either all as they were before the tick or all as
\* they are after it: once it has seen the route baselines of a tick, the
\* backend baselines it reads afterwards are those of that tick or a later
\* one.
C29_NoTornSnapshot ==
    reader.at = "done" => reader.backends >= reader.routes

\* The trace of a request through Chain(h, s1, ..., sk) when s(stop) is the
\* first stage that does not call its inner handler (stop = k + 1: all do).
FirstStop ==
    IF \A i \in 1..Len(chStages) : chStages[i] \in chCalls
    THEN Len(chStages) + 1
    ELSE CHOOSE i \in 1..Len(chStages) :
             /\ chStages[i] \notin chCalls
             /\ \A j \in 1..(i - 1) : chStages[j] \in chCalls
ExpectedTrace ==
    LET k == Len(chStages)
        entered == Min(FirstStop, k)
    IN [i \in 1..entered |-> <<"enter", chStages[i]>>]
       \o (IF FirstStop = k + 1 THEN <<<<"run", FinalHandler>>>> ELSE <<>>)
       \o [i \in 1..(FirstStop - 1) |-> <<"exit", chStages[FirstStop - i]>>]

\* C30: a request to Chain(h, s1, ..., sk) enters s1, ..., sk in this order
\* and then h, and the code after each stage's inner call runs in the order
\* sk, ..., s1; a stage that does not call its inner handler keeps the
\* later stages and h from running, and the code after the inner call of
\* the earlier stages still runs.
C30_ChainOrder ==
    /\ Len(chTrace) <= Len(ExpectedTrace)
    /\ chTrace = SubSeq(ExpectedTrace, 1, Len(chTrace))
    /\ (chAt = "return" /\ chStack = <<>>) => chTrace = ExpectedTrace

\* The second of three stages did not call its inner handler and the
\* request is through: the first stage ran on both sides of its inner
\* call, the third one and the handler did not run.
C30_Witness ==
    /\ Len(chStages) = 3
    /\ FirstStop = 2
    /\ chAt = "return"
    /\ chStack = <<>>
    /\ chTrace = <<<<"enter", chStages[1]>>, <<"enter", chStages[2]>>,
                   <<"exit", chStages[1]>>>>

\* C31: every response the pipeline sends, whichever stage wrote it (401,
\* 429, 503 and 500 included), carries a non-empty X-Request-ID; it is the
\* client's X-Request-ID when the request had a non-empty one, and it is
\* the value the stages get from GetRequestID.
C31_RequestIDOnEveryResponse ==
    gwSent.status # 0 =>
        /\ gwSent.requestID # <<>>
        /\ Head(gwSent.requestID) # <<>>
        /\ gwReq.requestID # <<>> =>
               Head(gwSent.requestID) = gwReq.requestID
        /\ \A layer \in DOMAIN gwRead :
               gwRead[layer] = Head(gwSent.requestID)

\* The breaker answered 503 to a request without X-Request-ID: the
\* response carries a generated ID of eight characters, which Logging and
\* Capture have read.
C31_Witness ==
    /\ gwAt = "done"
    /\ gwReq.requestID = <<>>
    /\ gwSent.status = StatusServiceUnavailable
    /\ Len(Head(gwSent.requestID)) = 8
    /\ DOMAIN gwRead = {"capture", "logging"}

\* What a response observer is to record for the calls `ops` made on it:
\* the code of a WriteHeader that comes first, else 200; and the bytes of
\* all the writes.
FirstStatus(ops) ==
    IF ops # <<>> /\ ops[1].op = "WriteHeader" THEN ops[1].arg ELSE StatusOK
RECURSIVE BytesOf(_)
BytesOf(ops) ==
    IF ops = <<>> THEN 0
    ELSE (IF Head(ops).op = "Write" THEN Head(ops).arg ELSE 0)
             + BytesOf(Tail(ops))
Captures == {i \in 1..Len(gwWriters) : gwWriters[i].kind = "responseCapture"}
IsLaterWriteHeader ==
    /\ gwOps # <<>>
    /\ Len(gwOps') = Len(gwOps) + 1
    /\ gwOps'[Len(gwOps')].op = "WriteHeader"

\* C32: whatever WriteHeader and Write calls the code inside makes, a
\* responseCapture's status (read as its middleware reads it, 0 as 200) is
\* the code of the first WriteHeader if that came before any Write and 200
\* otherwise, also when nothing is written; its byte count is the sum of
\* the bytes written; and a WriteHeader that is not the first call changes
\* neither the recorded status nor any status further out, up to the one
\* the server sent.
C32_CaptureRecordsFirstStatus ==
    /\ [](\A i \in Captures :
              /\ FinalStatus(gwWriters[i]) = FirstStatus(gwOps)
              /\ gwWriters[i].bytesWritten = BytesOf(gwOps))
    /\ [][IsLaterWriteHeader =>
              \A i \in Captures :
                  /\ gwWriters'[i].statusCode = gwWriters[i].statusCode
                  /\ \A j \in 1..(i - 1) :
                         gwWriters'[j].statusCode = gwWriters[j].statusCode
                  /\ gwSent'.status = gwSent.status]_vars

\* The handler wrote two bytes, then called WriteHeader(500), then wrote
\* two more: both observers hold 200 and four bytes, and 200 was sent.
C32_Witness ==
    /\ gwAt = "done"
    /\ gwOps = <<[op |-> "Write", arg |-> 2],
                 [op |-> "WriteHeader", arg |-> 500],
                 [op |-> "Write", arg |-> 2]>>
    /\ Cardinality(Captures) = 2
    /\ \A i \in Captures : /\ gwWriters[i].statusCode = StatusOK
                           /\ gwWriters[i].bytesWritten = 4
    /\ gwSent.status = StatusOK

\* C33: for one request, the layers that read the final status when their
\* inner handler is back (Capture, Metrics, the traffic recorder, Logging,
\* the circuit breaker) all read the same status, whatever header writes
\* the code inside made.
C33_AllStagesSeeSameStatus ==
    \A a \in DOMAIN gwSeen, b \in DOMAIN gwSeen : gwSeen[a] = gwSeen[b]

\* The request was answered by the rate limiter (429) or by auth (401).
RejectedEarly(ops) ==
    /\ ops # <<>>
    /\ ops[1].op = "WriteHeader"
    /\ ops[1].arg \in {StatusTooManyRequests, StatusUnauthorized}
\* The request has not come to the breaker yet.
BeforeBreaker ==
    /\ gwAt = "call"
    /\ GwNextLayer \notin {"circuitbreaker", "proxy"}
HasRecorder == \E i \in 1..Len(gwHandler) : gwHandler[i] = "traffic"
RecorderReturns == "traffic" \in DOMAIN gwSeen' /\ "traffic" \notin DOMAIN gwSeen

\* C40: a request the rate limiter answers with 429 or auth with 401 does
\* not come to the circuit breaker, and no step of it changes the
\* breaker's state, failureCount, totalCount or lastFailure; the traffic
\* recorder (when configured) still builds one event for it, with the
\* request's route and the 429 or 401 as status, and offers it to its
\* queue once, where it is taken unless the queue is full.
C40_RejectedBypassBreaker ==
    /\ [](RejectedEarly(gwOps) =>
              /\ "circuitbreaker" \notin DOMAIN gwSeen
              /\ \A i \in 1..Len(gwWriters) :
                     gwWriters[i].layer # "circuitbreaker"
              /\ "traffic" \in DOMAIN gwSeen =>
                     /\ gwSeen["traffic"] = gwOps[1].arg
                     /\ lastEvent.Status = gwOps[1].arg
                     /\ lastEvent.Route = NormalizeRoute(trRoutes, gwReq.path)
              /\ (gwAt = "done" /\ HasRecorder) => "traffic" \in DOMAIN gwSeen)
    /\ [][(BeforeBreaker \/ RejectedEarly(gwOps')) => UNCHANGED cbFields]_vars
    /\ [][RejectedEarly(gwOps') =>
              queued' = IF RecorderReturns /\ queued < ChannelCapacity
                        THEN queued + 1 ELSE queued]_vars

\* Auth answered 401 while the breaker was OPEN: the breaker is as it was,
\* and the recorder's queue holds the one event, for route /a with status
\* 401.
C40_Witness ==
    /\ gwAt = "done"
    /\ gwSent.status = StatusUnauthorized
    /\ state = StateOpen /\ failureCount = 1 /\ totalCount = 1
    /\ queued = 1
    /\ lastEvent = [Route |-> <<"/", "a">>, Status |-> StatusUnauthorized,
                    response |-> StatusUnauthorized, dropped |-> FALSE]

\* The breaker decides by error rate: shouldTrip's first branch is taken
\* for the counters of the next failure.
DynamicMode == analyzer /\ sufficientData
Failed == Completes /\ last'.status >= 500
Succeeded == Completes /\ last'.status < 500

C38_OpenLeftOnlyByTimeout ==
    [][(state = StateOpen /\ state' # StateOpen) =>
           /\ Admitted
           /\ TimeoutElapsed
           /\ state' = StateHalfOpen]_vars

\* C39: however Rebalance and AddBackend calls on a weighted load balancer
\* interleave, the weight table has exactly one entry for each backend of
\* the backend list, in the list's order: a backend whose AddBackend has
\* returned is among the weights Next selects from.
C39_WeightsCoverBackends ==
    routeSelector = "wlb" =>
        [i \in 1..Len(wlbWeights) |-> wlbWeights[i].url] = wlbBackends

\* C35: every read of the health registry's map, the iteration of a probe
\* tick (RunChecks) included, is made with hc.mu held (shared or
\* exclusive), and every write with hc.mu held exclusively.
C35_MapAccessUnderLock ==
    \A a \in hlAccess :
        /\ a.kind \in {"read", "iterate"} => a.lock # "none"
        /\ a.kind = "write" => a.lock = "exclusive"

\* The k newest of the logs added, newest first.
Newest(k) == [i \in 1..k |-> lsAdded[Len(lsAdded) + 1 - i]]
IsAdd == Len(lsAdded') = Len(lsAdded) + 1

\* C34: in a LogStore of capacity c, after any Adds the count is the
\* smaller of c and the number of Adds; Recent(n) returns the min(n, count)
\* logs added last, newest first (none for n <= 0); and an Add to a full
\* store drops the oldest log held and nothing else.
C34_RingBuffer ==
    /\ [](lsCount = Min(Len(lsAdded), lsSize))
    /\ [](lsRecent.called =>
              lsRecent.result = Newest(Max(0, Min(lsRecent.n, lsCount))))
    /\ [][(IsAdd /\ lsCount = lsSize) =>
              LET held == LogStoreRecent(lsSize) IN
              LogStoreRecent(lsSize)' =
                  <<lsAdded'[Len(lsAdded')]>>
                      \o SubSeq(held, 1, lsSize - 1)]_vars

\* A store of capacity 3 after four Adds: Recent(3) returned the logs 4, 3
\* and 2, in this order; log 1 is gone.
C34_Witness ==
    /\ lsSize = 3
    /\ Len(lsAdded) = 4
    /\ lsCount = 3
    /\ lsRecent.called /\ lsRecent.n = 3
    /\ [i \in 1..3 |-> lsRecent.result[i].ID] = <<4, 3, 2>>

\* The events accepted and not yet recorded, oldest first.
PendingIds ==
    (IF tqHand = NoHand THEN <<>> ELSE <<tqHand.id>>)
        \o [i \in 1..Len(tqEvents) |-> tqEvents[i].id]

=============================================================================
